---- MODULE Spec2Model ----
(***************************************************************************)
(* A model of rollplayerlib2: the dice-notation evaluator (main.py) and    *)
(* the timeout context manager it runs under (stopit.py).                  *)
(*                                                                         *)
(* Three specifications share the variables below:                         *)
(*   Spec           the evaluation of one dice group (DiceRollTransformer  *)
(*                  .modifiers, .dice and Roll.process with its stages);   *)
(*   SpecLimits     the three limit checkers, as pure functions of the     *)
(*                  written magnitude and the tier's configuration;        *)
(*   SpecSupervisor one call of an entry point (transformer_nongm,         *)
(*                  transformer_default, transformer_gm) with its          *)
(*                  ThreadingTimeout, the timer thread and the executor.   *)
(* Positions in lists are 1-based here and 0-based in the Python source.   *)
(* An optional value (Python None) is a sequence of length 0 or 1.         *)
(***************************************************************************)
EXTENDS Integers, Sequences, FiniteSets, TLC

\* ------------------------------------------------------------- bounds
\* The largest written dice quantity of a modelled dice group.
MaxQty == 3
\* The largest face of a modelled die (the high end of its range).
MaxSide == 3
\* The most steps (random draws) the dice stage of a supervised call makes.
MaxWork == 2
MaxOther == 4

\* ------------------------------------------------------------- helpers
None == <<>>
Some(x) == <<x>>
IsNone(o) == o = <<>>
The(o) == o[1]

MinOf(a, b) == IF a <= b THEN a ELSE b
SetMax(S) == CHOOSE m \in S : \A x \in S : x <= m
SetMin(S) == CHOOSE m \in S : \A x \in S : m <= x
Elems(s) == {s[i] : i \in DOMAIN s}

RECURSIVE Sum(_)
Sum(s) == IF s = <<>> THEN 0 ELSE Head(s) + Sum(Tail(s))

\* s without the element at position i (Python: del s[i]).
DelAt(s, i) == [k \in 1..(Len(s) - 1) |-> IF k < i THEN s[k] ELSE s[k + 1]]

\* s without the first occurrence of v.
RemoveFirst(s, v) == DelAt(s, SetMin({i \in DOMAIN s : s[i] = v}))

RECURSIVE SortAsc(_)
SortAsc(s) ==
    IF s = <<>> THEN <<>>
    ELSE LET m == SetMin(Elems(s)) IN <<m>> \o SortAsc(RemoveFirst(s, m))

RECURSIVE SortDesc(_)
SortDesc(s) ==
    IF s = <<>> THEN <<>>
    ELSE LET m == SetMax(Elems(s)) IN <<m>> \o SortDesc(RemoveFirst(s, m))

\* heapq.nsmallest(n, s) and heapq.nlargest(n, s).
nsmallest(n, s) == SubSeq(SortAsc(s), 1, MinOf(n, Len(s)))
nlargest(n, s) == SubSeq(SortDesc(s), 1, MinOf(n, Len(s)))

\* collections.Counter(s); a missing key counts 0.
Counter(s) == [v \in Elems(s) |-> Cardinality({i \in DOMAIN s : s[i] = v})]
CountOf(c, v) == IF v \in DOMAIN c THEN c[v] ELSE 0

\* ------------------------------------------------------------- conditions
\* ConditionType (main.py:115-123).
GREATER_THAN == "c_gt"
GREATER_THAN_OR_EQUAL == "c_gte"
LESS_THAN == "c_lt"
LESS_THAN_OR_EQUAL == "c_lte"
EQUAL == "c_equ"
NOT_EQUAL == "c_neq"
BETWEEN == "c_bet"
MAXIMUM == "c_max"

Condition(t, th) == [condition_type |-> t, threshold |-> th, threshold2 |-> None]
ConditionBetween(a, b) == [condition_type |-> BETWEEN, threshold |-> a, threshold2 |-> Some(b)]

\* The test one Condition makes of one value; rng is the roll's Range.
\* BETWEEN without threshold2 raises ValueError in condition_match: the
\* parser never builds one, and no modelled input has one.
ValueMatches(c, v, rng) ==
    CASE c.condition_type = GREATER_THAN -> v > c.threshold
      [] c.condition_type = GREATER_THAN_OR_EQUAL -> v >= c.threshold
      [] c.condition_type = LESS_THAN -> v < c.threshold
      [] c.condition_type = LESS_THAN_OR_EQUAL -> v <= c.threshold
      [] c.condition_type = EQUAL -> v = c.threshold
      [] c.condition_type = NOT_EQUAL -> v # c.threshold
      [] c.condition_type = BETWEEN ->
            LET low == MinOf(c.threshold, The(c.threshold2))
                high == IF c.threshold >= The(c.threshold2) THEN c.threshold ELSE The(c.threshold2)
            IN low <= v /\ v <= high
      [] c.condition_type = MAXIMUM -> v = rng.high

\* Condition.condition_match: the positions of res that match the condition.
condition_match(c, res, rng) == {i \in DOMAIN res : ValueMatches(c, res[i], rng)}

\* The union of condition_match over a condition list (the loops of
\* process_drops and process_rerolls that build to_drop / to_reroll).
MatchAny(conds, res, rng) ==
    UNION {condition_match(conds[k], res, rng) : k \in DOMAIN conds}

\* ------------------------------------------------------------- exceptions
\* LimitException (main.py:33-37): the hard-limit kind of error.
LimitException == "LimitException"
\* RollplayerGamemasterUpsellException (main.py:26-31): the upsell kind.
UpsellException == "RollplayerGamemasterUpsellException"

Raise(kind) == [raised |-> TRUE, kind |-> kind, value |-> None]
Return(v) == [raised |-> FALSE, kind |-> "", value |-> Some(v)]

\* ------------------------------------------------------------- typed modifier objects
\* Operator (main.py:39-43).
ADD == "t_add"
SUB == "t_sub"
MUL == "t_mul"

HIGHER == "HIGHER"
LOWER == "LOWER"

Keep(keep_type, quantity) == [kind |-> "Keep", keep_type |-> keep_type, quantity |-> quantity]
Explosion(conditions, limit) ==
    [kind |-> "Explosion", explosion_type |-> "exp_infinite", conditions |-> conditions, limit |-> limit]
Reroll(conditions, limit) == [kind |-> "Reroll", conditions |-> conditions, limit |-> limit]
ConditionalDrop(conditions) == [kind |-> "ConditionalDrop", conditions |-> conditions]
TargetedOperation(operator, value) == [operator |-> operator, value |-> value]
\* targets: None for the wildcard, otherwise the written list of positions.
TargetedBonus(targets, operations) ==
    [kind |-> "TargetedBonus", targets |-> targets, operations |-> operations]

\* Modifiers (main.py:215-222).
EmptyModifiers ==
    [targeted_bonuses |-> <<>>, keep_lower |-> None, keep_higher |-> None,
     explosion |-> None, rerolls |-> <<>>, drops |-> <<>>]

\* One iteration of the loop of DiceRollTransformer.modifiers: acc is a
\* Return of the aggregate built so far, or the exception already raised.
ModifiersStep(acc, value) ==
    IF acc.raised THEN acc
    ELSE LET m == The(acc.value) IN
      CASE value.kind = "TargetedBonus" ->
              Return([m EXCEPT !.targeted_bonuses = Append(@, value)])
        [] value.kind = "Keep" /\ value.keep_type = HIGHER ->
              IF ~IsNone(m.keep_higher) THEN Raise(LimitException)
              ELSE Return([m EXCEPT !.keep_higher = Some(value)])
        [] value.kind = "Keep" /\ value.keep_type = LOWER ->
              IF ~IsNone(m.keep_lower) THEN Raise(LimitException)
              ELSE Return([m EXCEPT !.keep_lower = Some(value)])
        [] value.kind = "Explosion" ->
              IF ~IsNone(m.explosion) THEN Raise(LimitException)
              ELSE Return([m EXCEPT !.explosion = Some(value)])
        [] value.kind = "Reroll" -> Return([m EXCEPT !.rerolls = Append(@, value)])
        [] value.kind = "ConditionalDrop" -> Return([m EXCEPT !.drops = Append(@, value)])

RECURSIVE ModifiersFold(_, _)
ModifiersFold(acc, tl) ==
    IF tl = <<>> THEN acc ELSE ModifiersFold(ModifiersStep(acc, Head(tl)), Tail(tl))

\* DiceRollTransformer.modifiers: the suffixes, in the order written, are
\* sorted by type into one Modifiers aggregate.
modifiers_of(tl) == ModifiersFold(Return(EmptyModifiers), tl)

\* ------------------------------------------------------------- stages of Roll.process
\* Roll.process_keeps on the list res. Its outcome is a Return of the new
\* list, with rebound telling whether self.results now names a new list
\* object, or the LimitException of "You can't keep nothing!".
RECURSIVE KeepScan(_, _)
KeepScan(res, counts) ==
    IF res = <<>> THEN <<>>
    ELSE LET x == Head(res) IN
         IF CountOf(counts, x) > 0
         THEN <<x>> \o KeepScan(Tail(res), [counts EXCEPT ![x] = @ - 1])
         ELSE KeepScan(Tail(res), counts)

\* Variant of process_keeps: the selected values as nsmallest and nlargest
\* return them, not in the order of the draw.
process_keeps_as_selected(mods, res) ==
    IF IsNone(mods.keep_higher) /\ IsNone(mods.keep_lower)
    THEN [raised |-> FALSE, rebound |-> FALSE, results |-> res]
    ELSE LET higher == IF IsNone(mods.keep_higher) THEN 0 ELSE The(mods.keep_higher).quantity
             lower == IF IsNone(mods.keep_lower) THEN 0 ELSE The(mods.keep_lower).quantity
             low == IF lower > 0 THEN nsmallest(lower, res) ELSE <<>>
             high == IF higher > 0 THEN nlargest(higher, res) ELSE <<>>
         IN IF higher = 0 /\ lower = 0
            THEN [raised |-> TRUE, rebound |-> FALSE, results |-> res]
            ELSE [raised |-> FALSE, rebound |-> TRUE, results |-> low \o high]

\* Variant of process_keeps: two quantities of 0 keep nothing instead of raising.
process_keeps_allows_nothing(mods, res) ==
    IF IsNone(mods.keep_higher) /\ IsNone(mods.keep_lower)
    THEN [raised |-> FALSE, rebound |-> FALSE, results |-> res]
    ELSE LET higher == IF IsNone(mods.keep_higher) THEN 0 ELSE The(mods.keep_higher).quantity
             lower == IF IsNone(mods.keep_lower) THEN 0 ELSE The(mods.keep_lower).quantity
             low == IF lower > 0 THEN nsmallest(lower, res) ELSE <<>>
             high == IF higher > 0 THEN nlargest(higher, res) ELSE <<>>
             counts == Counter(low \o high)
         IN [raised |-> FALSE, rebound |-> TRUE, results |-> KeepScan(res, counts)]

\* Variant of process_keeps: a value is kept when it is among the selected
\* ones, however often it was selected.
process_keeps_by_membership(mods, res) ==
    IF IsNone(mods.keep_higher) /\ IsNone(mods.keep_lower)
    THEN [raised |-> FALSE, rebound |-> FALSE, results |-> res]
    ELSE LET higher == IF IsNone(mods.keep_higher) THEN 0 ELSE The(mods.keep_higher).quantity
             lower == IF IsNone(mods.keep_lower) THEN 0 ELSE The(mods.keep_lower).quantity
             low == IF lower > 0 THEN nsmallest(lower, res) ELSE <<>>
             high == IF higher > 0 THEN nlargest(higher, res) ELSE <<>>
             selected == Elems(low \o high)
         IN IF higher = 0 /\ lower = 0
            THEN [raised |-> TRUE, rebound |-> FALSE, results |-> res]
            ELSE [raised |-> FALSE, rebound |-> TRUE,
                  results |-> SelectSeq(res, LAMBDA x : x \in selected)]

process_keeps(mods, res) ==
    IF IsNone(mods.keep_higher) /\ IsNone(mods.keep_lower)
    THEN [raised |-> FALSE, rebound |-> FALSE, results |-> res]
    ELSE LET higher == IF IsNone(mods.keep_higher) THEN 0 ELSE The(mods.keep_higher).quantity
             lower == IF IsNone(mods.keep_lower) THEN 0 ELSE The(mods.keep_lower).quantity
             low == IF lower > 0 THEN nsmallest(lower, res) ELSE <<>>
             high == IF higher > 0 THEN nlargest(higher, res) ELSE <<>>
             counts == Counter(low \o high)
         IN IF higher = 0 /\ lower = 0
            THEN [raised |-> TRUE, rebound |-> FALSE, results |-> res]
            ELSE [raised |-> FALSE, rebound |-> TRUE, results |-> KeepScan(res, counts)]

\* Roll.process_drops: the union of the matching positions over every
\* condition of every drop clause, deleted from the highest position down.
ToDrop(mods, res, rng) ==
    UNION {MatchAny(mods.drops[d].conditions, res, rng) : d \in DOMAIN mods.drops}

\* Variant of DeleteDescending: the positions deleted from the lowest up,
\* each against the list as the deletions before it left it.
RECURSIVE DeleteAscending(_, _)
DeleteAscending(res, idxs) ==
    IF idxs = {} THEN res
    ELSE LET idx == SetMin(idxs) IN
         DeleteAscending(IF idx <= Len(res) THEN DelAt(res, idx) ELSE res, idxs \ {idx})

RECURSIVE DeleteDescending(_, _)
DeleteDescending(res, idxs) ==
    IF idxs = {} THEN res
    ELSE LET idx == SetMax(idxs) IN DeleteDescending(DelAt(res, idx), idxs \ {idx})

\* Variant of process_drops: only the first condition of each drop clause counts.
process_drops_first_condition(mods, res, rng) ==
    DeleteDescending(res,
        UNION {condition_match(mods.drops[d].conditions[1], res, rng) : d \in DOMAIN mods.drops})

process_drops(mods, res, rng) == DeleteDescending(res, ToDrop(mods, res, rng))

\* Variant of Faces: one face above the range.
FacesPastHigh(rng) == rng.low .. rng.high + 1

\* The values random.randint(low, high) can return.
Faces(rng) == rng.low .. rng.high

\* Roll._check_value_meets_explosion_conditions: the loop assigns
\* condition_met afresh for each condition and returns it after the loop.
RECURSIVE ExplosionConditionLoop(_, _, _, _)
ExplosionConditionLoop(conds, value_to_check, rng, condition_met) ==
    IF conds = <<>> THEN condition_met
    ELSE ExplosionConditionLoop(Tail(conds), value_to_check, rng,
                                ValueMatches(Head(conds), value_to_check, rng))

check_value_meets_explosion_conditions(mods, value_to_check, rng) ==
    IF IsNone(mods.explosion) \/ The(mods.explosion).conditions = <<>> THEN FALSE
    ELSE ExplosionConditionLoop(The(mods.explosion).conditions, value_to_check, rng, FALSE)

\* The early return of process_explosion (main.py:385-389).
ExplosionSkipped(mods, res) ==
    \/ IsNone(mods.explosion)
    \/ res = <<>>
    \/ The(mods.explosion).limit <= 0
    \/ The(mods.explosion).conditions = <<>>

\* TargetedOperation.apply. Division (t_div) is Python's true division and
\* yields a float; the modelled inputs use the integer-valued operators.
OperationApply(operation, roll_value) ==
    CASE operation.operator = ADD -> roll_value + operation.value
      [] operation.operator = SUB -> roll_value - operation.value
      [] operation.operator = MUL -> roll_value * operation.value

\* The inner loop of TargetedBonus.apply for one operation: acc is a Return
\* of the list so far, or the LimitException made of the IndexError.
RECURSIVE ApplyToTargets(_, _, _)
ApplyToTargets(operation, targets, acc) ==
    IF targets = <<>> \/ acc.raised THEN acc
    ELSE LET res == The(acc.value)
             target == Head(targets)
         IN IF target > Len(res) THEN Raise(LimitException)
            ELSE ApplyToTargets(operation, Tail(targets),
                    Return([res EXCEPT ![target] = OperationApply(operation, res[target])]))

RECURSIVE ApplyOperations(_, _, _)
ApplyOperations(operations, targets, acc) ==
    IF operations = <<>> \/ acc.raised THEN acc
    ELSE ApplyOperations(Tail(operations), targets,
                         ApplyToTargets(Head(operations), targets, acc))

\* Variant of TargetsOf: the wildcard as range(1, len(results)).
TargetsOfShortWildcard(bonus, res) ==
    IF IsNone(bonus.targets) THEN [i \in 1..(Len(res) - 1) |-> i] ELSE The(bonus.targets)

\* TargetedBonus.apply: the wildcard becomes every position of the list as
\* it stands now; position 0 is refused before anything is changed.
TargetsOf(bonus, res) ==
    IF IsNone(bonus.targets) THEN [i \in 1..Len(res) |-> i] ELSE The(bonus.targets)

\* Variant of TargetedBonusApply: no test for position 0, so that
\* results[0 - 1] addresses the last position.
TargetedBonusApplyZeroAsLast(bonus, res) ==
    LET written == TargetsOf(bonus, res)
        targets == [k \in DOMAIN written |-> IF written[k] = 0 THEN Len(res) ELSE written[k]]
    IN ApplyOperations(bonus.operations, targets, Return(res))

TargetedBonusApply(bonus, res) ==
    LET targets == TargetsOf(bonus, res) IN
    IF 0 \in Elems(targets) THEN Raise(LimitException)
    ELSE ApplyOperations(bonus.operations, targets, Return(res))

\* ------------------------------------------------------------- tiers and limit checkers
\* The configuration each entry point passes to its transformers and to
\* ThreadingTimeout: transformer_nongm (main.py:636-642), transformer_default
\* (main.py:598-604), transformer_gm (main.py:617-623).
Tiers == {"nongm", "default", "gm"}

TierConfig(tier) ==
    CASE tier = "nongm" ->
            [explode_limit |-> 5, reroll_limit |-> 5, dice_count_limit |-> 1000,
             gamemaster |-> FALSE, seconds |-> 2]
      [] tier = "default" ->
            [explode_limit |-> 5, reroll_limit |-> 5, dice_count_limit |-> 1000,
             gamemaster |-> TRUE, seconds |-> 2]
      [] tier = "gm" ->
            [explode_limit |-> 50, reroll_limit |-> 30, dice_count_limit |-> 10000,
             gamemaster |-> TRUE, seconds |-> 4]

\* Variant of check_qty: no test for a quantity of 0.
check_qty_without_zero_test(limit, dice_count_limit, gamemaster) ==
    IF limit <= dice_count_limit THEN Return(limit)
    ELSE IF ~gamemaster THEN Raise(UpsellException)
    ELSE Raise(LimitException)

\* Variant of check_qty: the two errors above the cap exchanged.
check_qty_flag_inverted(limit, dice_count_limit, gamemaster) ==
    IF limit = 0 THEN Raise(LimitException)
    ELSE IF limit <= dice_count_limit THEN Return(limit)
    ELSE IF gamemaster THEN Raise(UpsellException)
    ELSE Raise(LimitException)

\* DiceRollTransformer.check_qty.
check_qty(limit, dice_count_limit, gamemaster) ==
    IF limit = 0 THEN Raise(LimitException)
    ELSE IF limit <= dice_count_limit THEN Return(limit)
    ELSE IF ~gamemaster THEN Raise(UpsellException)
    ELSE Raise(LimitException)

\* ExplodeLimitTransformer.limit_check.
explode_limit_check(limit, self_limit, gamemaster) ==
    IF limit <= self_limit THEN Return(limit)
    ELSE IF ~gamemaster THEN Raise(UpsellException)
    ELSE Raise(LimitException)

\* RerollLimitTransformer.limit_check.
reroll_limit_check(limit, self_limit, gamemaster) ==
    IF limit <= self_limit THEN Return(limit)
    ELSE IF ~gamemaster THEN Raise(UpsellException)
    ELSE Raise(LimitException)

\* ExplodeLimitTransformer.explode on a written explosion: cond_list and
\* limit are each optional. Without conditions the list is [MAXIMUM];
\* without a limit the limit is the transformer's own.
explode(cond_list, limit, self_limit, gamemaster) ==
    LET conds == IF IsNone(cond_list) THEN <<Condition(MAXIMUM, -1)>> ELSE The(cond_list)
        checked == IF IsNone(limit) THEN Return(self_limit)
                   ELSE explode_limit_check(The(limit), self_limit, gamemaster)
    IN IF checked.raised THEN checked ELSE Return(Explosion(conds, The(checked.value)))

\* RerollLimitTransformer.reroll_condition: the limit defaults to 1.
reroll_condition(cond_list, limit, self_limit, gamemaster) ==
    LET checked == IF IsNone(limit) THEN Return(1)
                   ELSE reroll_limit_check(The(limit), self_limit, gamemaster)
    IN IF checked.raised THEN checked ELSE Return(Reroll(cond_list, The(checked.value)))

\* RollplayerLibTransformer.range: a percent range is 1..100, a simple
\* range is 1..n, and written bounds are swapped when reversed
\* (Range.swap_if_needed).
swap_if_needed(rng) ==
    IF rng.low > rng.high THEN [low |-> rng.high, high |-> rng.low] ELSE rng
range_simple(n) == swap_if_needed([low |-> 1, high |-> n])
range_between(a, b) == swap_if_needed([low |-> a, high |-> b])

\* ------------------------------------------------------------- modelled inputs
\* The stopgap tier is the one the bot calls (cogs/100-commands/rolling.py:42).
RollTier == "default"

\* The dice ranges of the modelled groups: dN, d2..N and dN..2.
Ranges == {range_simple(MaxSide), range_between(2, MaxSide), range_between(MaxSide, 2)}

\* The written quantity: absent, or 0..MaxQty.
QtyTokens == {None} \cup {Some(n) : n \in 0..MaxQty}

\* The modifier suffixes a modelled group may carry, as the objects the
\* first three transformers make of them.
ExplodeOf(cond_list, limit) ==
    The(explode(cond_list, limit, TierConfig(RollTier).explode_limit,
                TierConfig(RollTier).gamemaster).value)
RerollOf(cond_list, limit) ==
    The(reroll_condition(cond_list, limit, TierConfig(RollTier).reroll_limit,
                         TierConfig(RollTier).gamemaster).value)

KH0 == Keep(HIGHER, 0)
KH2 == Keep(HIGHER, 2)
KL0 == Keep(LOWER, 0)
KL1 == Keep(LOWER, 1)
DropLow == ConditionalDrop(<<Condition(LESS_THAN, 2)>>)
DropEnds == ConditionalDrop(<<Condition(EQUAL, 3), Condition(LESS_THAN_OR_EQUAL, 1)>>)
RerollLow == RerollOf(<<Condition(LESS_THAN, 2)>>, Some(2))
RerollHigh == RerollOf(<<Condition(GREATER_THAN_OR_EQUAL, 3)>>, None)
ExplodeDefault == ExplodeOf(None, None)
ExplodeMax == ExplodeOf(None, Some(2))
ExplodeEnds == ExplodeOf(Some(<<Condition(LESS_THAN, 2), Condition(GREATER_THAN, 2)>>), Some(1))
BonusAll == TargetedBonus(None, <<TargetedOperation(ADD, 2), TargetedOperation(MUL, 2)>>)
BonusFirstThird == TargetedBonus(Some(<<1, 3>>), <<TargetedOperation(ADD, 2)>>)
BonusZeroth == TargetedBonus(Some(<<0>>), <<TargetedOperation(SUB, 1)>>)

Suffixes ==
    { KH0, KH2, KL0, KL1, DropLow, DropEnds, RerollLow, RerollHigh,
      ExplodeDefault, ExplodeMax, ExplodeEnds, BonusAll, BonusFirstThird, BonusZeroth }

\* One suffix for each stage of process().
StageSuffixes == {KH2, DropLow, RerollHigh, ExplodeMax, BonusFirstThird}

\* The suffix lists of the modelled groups: none; each suffix alone; each
\* two suffixes of different stages, in both orders; two suffixes of one
\* stage; and one suffix of every stage, written in the order of the
\* stages and in the opposite order.
SuffixLists ==
    {<<>>}
    \cup {<<s>> : s \in Suffixes}
    \cup {p \in StageSuffixes \X StageSuffixes : p[1].kind # p[2].kind}
    \cup { <<KH2, KL1>>, <<KL1, KH2>>, <<KH0, KL1>>, <<KH0, KL0>>, <<KH2, KH2>>,
           <<DropLow, DropEnds>>, <<RerollLow, RerollHigh>>, <<ExplodeMax, ExplodeEnds>>,
           <<BonusAll, BonusFirstThird>>, <<ExplodeMax, BonusAll>> }
    \cup { <<KL1, DropEnds, RerollLow, ExplodeMax, BonusAll>>,
           <<BonusAll, ExplodeMax, RerollLow, DropEnds, KL1>> }

\* The draws of n dice.
Draws(n, rng) == [1..n -> Faces(rng)]

\* ------------------------------------------------------------- state
VARIABLES
    \* One dice group under DiceRollTransformer and Roll.process.
    tree_list,              \* the suffixes as written (the argument of modifiers)
    qty_token,              \* the written quantity, None when absent
    range,                  \* Roll.range
    modifiers,              \* Roll.modifiers, None until modifiers() has run
    quantity,               \* Roll.quantity
    results,                \* the list Roll.results names
    results_original,       \* the list Roll.results_original names
    same_object,            \* TRUE while both names refer to one list object
    pc,                     \* the statement of dice()/process() about to run
    error,                  \* the exception that ended the evaluation, if any
    stages,                 \* the process_* calls made so far, in call order
    rr_idx,                 \* process_rerolls: the clause of the outer loop
    attempt,                \* process_rerolls: rounds of this clause that redrew
    rr_log,                 \* per finished clause: its rounds and the results it left
    exp_i,                  \* process_explosion: i
    current_value_to_check, \* process_explosion: current_value_to_check
    explosion_counts,       \* process_explosion: explosion_counts
    bonus_idx,              \* process_targeted_bonuses: the clause of the loop
    draws,                  \* calls of random.randint made so far
    roll_result,            \* the RollResult dice() returned, if any
    \* One call of a limit checker.
    lim_checker,            \* which limit_check / check_qty is called
    lim_tier,               \* the tier whose transformer it is
    lim_value,              \* the written magnitude
    lim_out,                \* what the call returned or raised, None before it
    \* One call of an entry point under its ThreadingTimeout.
    tier,                   \* which entry point: nongm, default or gm
    fault,                  \* what is wrong with the expression, if anything
    co_pc,                  \* the statement the coroutine is at
    stage,                  \* the pipeline stage in turn, 0 before the first
    in_block,               \* TRUE while the coroutine is inside the with block
    exc,                    \* the exception propagating in the coroutine, if any
    state,                  \* BaseTimeout.state of to_ctx_mgr
    timer_pc,               \* where the threading.Timer thread is
    timer_finished,         \* Timer.finished, the event Timer.cancel() sets
    pending_async_exc,      \* PyThreadState_SetAsyncExc is pending on target_tid
    worker,                 \* the executor thread of run_in_executor
    work_left,              \* steps (random draws) the worker has still to make
    elapsed_at,             \* the stage during which the budget elapsed, 0 if not yet
    late_work,              \* worker steps made after stop() set TIMED_OUT
    victim,                 \* where the asynchronous exception was raised
    outcome,                \* how the call ended, "" while it runs
    \* One rule of the tree under MathTransformer.
    math_op,                \* the rule: add, sub, mul, div, neg, or start alone
    math_args,              \* its children, already transformed
    math_pc,                \* the callback about to run
    math_value,             \* what the callback of the rule returned or raised
    math_ret,               \* what start() returned, None before it
    \* The generator of the random module, one request and the map game.
    rng_state,              \* the state of the module-level generator
    req_left,               \* draws the request has still to make
    req_draws,              \* the values the request has drawn, in order
    own_state,              \* the state a generator of the request's own would be in
    own_draws,              \* the values that generator would have given it
    mg_pc,                  \* the statement mapgame_step_expand is at
    mg_turn,                \* MapGameInstance.turn
    expansion_seed,         \* mapgame_step_expand: expansion_seed
    others_done             \* calls on the generator made by others so far

rollVars == <<tree_list, qty_token, range, modifiers, quantity, results, results_original,
              same_object, pc, error, stages, rr_idx, attempt, rr_log, exp_i,
              current_value_to_check, explosion_counts, bonus_idx, draws, roll_result>>
limVars == <<lim_checker, lim_tier, lim_value, lim_out>>
supVars == <<tier, fault, co_pc, stage, in_block, exc, state, timer_pc, timer_finished,
             pending_async_exc, worker, work_left, elapsed_at, late_work, victim, outcome>>
mathVars == <<math_op, math_args, math_pc, math_value, math_ret>>
rndVars == <<rng_state, req_left, req_draws, own_state, own_draws, mg_pc, mg_turn,
             expansion_seed, others_done>>
vars == <<rollVars, limVars, supVars, mathVars, rndVars>>

\* ------------------------------------------------------------- one dice group
\* The state of a Roll that dice() has not built yet.
RollFresh ==
    /\ modifiers = None /\ quantity = 0
    /\ results = <<>> /\ results_original = <<>> /\ same_object = FALSE
    /\ error = None /\ stages = <<>>
    /\ rr_idx = 0 /\ attempt = 0 /\ rr_log = <<>>
    /\ exp_i = 0 /\ current_value_to_check = 0 /\ explosion_counts = <<>>
    /\ bonus_idx = 0 /\ draws = 0 /\ roll_result = None

RollIdle ==
    /\ tree_list = <<>> /\ qty_token = None /\ range = range_simple(1)
    /\ pc = "idle" /\ RollFresh

LimitsIdle ==
    /\ lim_checker = "" /\ lim_tier = "" /\ lim_value = 0 /\ lim_out = None

\* BaseTimeout.EXECUTED .. CANCELED (stopit.py:82).
EXECUTED == "EXECUTED"
EXECUTING == "EXECUTING"
TIMED_OUT == "TIMED_OUT"
INTERRUPTED == "INTERRUPTED"
CANCELED == "CANCELED"

SupervisorIdle ==
    /\ tier = "" /\ fault = "" /\ co_pc = "idle" /\ stage = 0 /\ in_block = FALSE
    /\ exc = None /\ state = EXECUTED /\ timer_pc = "none" /\ timer_finished = FALSE
    /\ pending_async_exc = FALSE /\ worker = "idle" /\ work_left = 0
    /\ elapsed_at = 0 /\ late_work = 0 /\ victim = "" /\ outcome = ""

MathIdle ==
    /\ math_op = "" /\ math_args = <<>> /\ math_pc = "idle"
    /\ math_value = None /\ math_ret = None

RandomIdle ==
    /\ rng_state = 0 /\ req_left = 0 /\ req_draws = <<>>
    /\ own_state = 0 /\ own_draws = <<>>
    /\ mg_pc = "idle" /\ mg_turn = 0 /\ expansion_seed = 0 /\ others_done = 0

InitRoll ==
    /\ tree_list \in SuffixLists
    /\ qty_token \in QtyTokens
    /\ range \in Ranges
    /\ pc = "modifiers"
    /\ RollFresh
    /\ LimitsIdle
    /\ SupervisorIdle
    /\ MathIdle
    /\ RandomIdle

\* Variant of StageAfter: process() calling the drop stage before the keep stage.
StageAfterDropsFirst(finished) ==
    CASE finished = "draw" -> "drops"
      [] finished = "drops" -> "keeps"
      [] finished = "keeps" -> "rerolls"
      [] finished = "rerolls" -> "explosion"
      [] finished = "explosion" -> "bonuses"
      [] finished = "bonuses" -> "return"

\* The order in which Roll.process calls the stages (main.py:418-422).
StageAfter(finished) ==
    CASE finished = "draw" -> "keeps"
      [] finished = "keeps" -> "drops"
      [] finished = "drops" -> "rerolls"
      [] finished = "rerolls" -> "explosion"
      [] finished = "explosion" -> "bonuses"
      [] finished = "bonuses" -> "return"

\* The call of the next stage: the one that follows the finished one in process().
CallNext(finished) ==
    LET next == StageAfter(finished) IN
    /\ pc' = next
    /\ stages' = IF next = "return" THEN stages ELSE Append(stages, next)

\* An exception leaves dice(): the Roll and its lists are dropped.
Fail(kind) ==
    /\ pc' = "error"
    /\ error' = Some(kind)

\* Variant of list_copy: results_original = results, a second name of the same list.
list_alias(list) == [values |-> list, same_object |-> TRUE]

\* results.copy() (main.py:417): a new list object with the same values.
list_copy(list) == [values |-> list, same_object |-> FALSE]

\* A change of the list self.results names, made in place: it shows under
\* every name of that list object.
InPlace(new) ==
    /\ results' = new
    /\ results_original' = IF same_object THEN new ELSE results_original

\* DiceRollTransformer.modifiers (main.py:538-570).
Modifiers ==
    /\ pc = "modifiers"
    /\ LET m == modifiers_of(tree_list) IN
       IF m.raised
       THEN /\ Fail(m.kind)
            /\ UNCHANGED modifiers
       ELSE /\ modifiers' = m.value
            /\ pc' = "dice"
            /\ UNCHANGED error
    /\ UNCHANGED <<tree_list, qty_token, range, quantity, results, results_original,
                   same_object, stages, rr_idx, attempt, rr_log, exp_i,
                   current_value_to_check, explosion_counts, bonus_idx, draws, roll_result>>
    /\ UNCHANGED <<limVars, supVars, mathVars, rndVars>>

\* DiceRollTransformer.dice up to the construction of the Roll
\* (main.py:572-577): the quantity is 1 when none is written.
Dice ==
    /\ pc = "dice"
    /\ LET qty == IF IsNone(qty_token) THEN Return(1)
                  ELSE check_qty(The(qty_token), TierConfig(RollTier).dice_count_limit,
                                 TierConfig(RollTier).gamemaster)
       IN IF qty.raised
          THEN /\ Fail(qty.kind)
               /\ UNCHANGED quantity
          ELSE /\ quantity' = The(qty.value)
               /\ pc' = "draw"
               /\ UNCHANGED error
    /\ UNCHANGED <<tree_list, qty_token, range, modifiers, results, results_original,
                   same_object, stages, rr_idx, attempt, rr_log, exp_i,
                   current_value_to_check, explosion_counts, bonus_idx, draws, roll_result>>
    /\ UNCHANGED <<limVars, supVars, mathVars, rndVars>>

\* Roll.process, the initial draw and the copy (main.py:413-417).
ProcessDraw ==
    /\ pc = "draw"
    /\ \E drawn \in Draws(quantity, range) :
          LET copy == list_copy(drawn) IN
          /\ results' = drawn
          /\ results_original' = copy.values
          /\ same_object' = copy.same_object
    /\ draws' = draws + quantity
    /\ CallNext("draw")
    /\ UNCHANGED <<tree_list, qty_token, range, modifiers, quantity, error, rr_idx, attempt,
                   rr_log, exp_i, current_value_to_check, explosion_counts, bonus_idx,
                   roll_result>>
    /\ UNCHANGED <<limVars, supVars, mathVars, rndVars>>

\* Roll.process_keeps (main.py:340-362): self.results is bound to a new
\* list, unless the group has no keep.
ProcessKeeps ==
    /\ pc = "keeps"
    /\ LET k == process_keeps(The(modifiers), results) IN
       IF k.raised
       THEN /\ Fail(LimitException)
            /\ UNCHANGED <<results, same_object, stages>>
       ELSE /\ results' = k.results
            /\ same_object' = IF k.rebound THEN FALSE ELSE same_object
            /\ CallNext("keeps")
            /\ UNCHANGED error
    /\ UNCHANGED <<tree_list, qty_token, range, modifiers, quantity, results_original,
                   rr_idx, attempt, rr_log, exp_i, current_value_to_check,
                   explosion_counts, bonus_idx, draws, roll_result>>
    /\ UNCHANGED <<limVars, supVars, mathVars, rndVars>>

\* Roll.process_drops (main.py:364-372), deleting in place.
ProcessDrops ==
    /\ pc = "drops"
    /\ InPlace(process_drops(The(modifiers), results, range))
    /\ CallNext("drops")
    /\ rr_idx' = 1
    /\ attempt' = 0
    /\ UNCHANGED <<tree_list, qty_token, range, modifiers, quantity, same_object, error,
                   rr_log, exp_i, current_value_to_check, explosion_counts, bonus_idx,
                   draws, roll_result>>
    /\ UNCHANGED <<limVars, supVars, mathVars, rndVars>>

\* Variant of ToReroll: every position is redrawn as soon as one matches.
ToRerollEveryPosition ==
    IF MatchAny(The(modifiers).rerolls[rr_idx].conditions, results, range) = {}
    THEN {} ELSE DOMAIN results

\* process_rerolls (main.py:374-382). to_reroll of the clause in turn.
ToReroll == MatchAny(The(modifiers).rerolls[rr_idx].conditions, results, range)
InRerollClause == pc = "rerolls" /\ rr_idx \in DOMAIN The(modifiers).rerolls

\* Variant of RerollRound: one round more than the limit allows.
RerollRoundOneTooMany ==
    /\ InRerollClause
    /\ attempt <= The(modifiers).rerolls[rr_idx].limit
    /\ ToReroll # {}
    /\ \E fresh \in [ToReroll -> Faces(range)] :
          InPlace([i \in DOMAIN results |-> IF i \in ToReroll THEN fresh[i] ELSE results[i]])
    /\ draws' = draws + Cardinality(ToReroll)
    /\ attempt' = attempt + 1
    /\ UNCHANGED <<tree_list, qty_token, range, modifiers, quantity, same_object, pc, error,
                   stages, rr_idx, rr_log, exp_i, current_value_to_check, explosion_counts,
                   bonus_idx, roll_result>>
    /\ UNCHANGED <<limVars, supVars, mathVars, rndVars>>

\* One round of the inner loop that redraws: every position of to_reroll,
\* computed before the first redraw, gets a fresh value.
RerollRound ==
    /\ InRerollClause
    /\ attempt < The(modifiers).rerolls[rr_idx].limit
    /\ ToReroll # {}
    /\ \E fresh \in [ToReroll -> Faces(range)] :
          InPlace([i \in DOMAIN results |-> IF i \in ToReroll THEN fresh[i] ELSE results[i]])
    /\ draws' = draws + Cardinality(ToReroll)
    /\ attempt' = attempt + 1
    /\ UNCHANGED <<tree_list, qty_token, range, modifiers, quantity, same_object, pc, error,
                   stages, rr_idx, rr_log, exp_i, current_value_to_check, explosion_counts,
                   bonus_idx, roll_result>>
    /\ UNCHANGED <<limVars, supVars, mathVars, rndVars>>

\* The inner loop ends, by its break or because range(limit) is used up,
\* and the outer loop goes to the next clause.
RerollClauseEnd ==
    /\ InRerollClause
    /\ attempt >= The(modifiers).rerolls[rr_idx].limit \/ ToReroll = {}
    /\ rr_log' = Append(rr_log, [rounds |-> attempt, left |-> results])
    /\ rr_idx' = rr_idx + 1
    /\ attempt' = 0
    /\ UNCHANGED <<tree_list, qty_token, range, modifiers, quantity, results, results_original,
                   same_object, pc, error, stages, exp_i, current_value_to_check,
                   explosion_counts, bonus_idx, draws, roll_result>>
    /\ UNCHANGED <<limVars, supVars, mathVars, rndVars>>

\* The outer loop of process_rerolls is used up.
RerollsEnd ==
    /\ pc = "rerolls"
    /\ rr_idx > Len(The(modifiers).rerolls)
    /\ CallNext("rerolls")
    /\ UNCHANGED <<tree_list, qty_token, range, modifiers, quantity, results, results_original,
                   same_object, error, rr_idx, attempt, rr_log, exp_i,
                   current_value_to_check, explosion_counts, bonus_idx, draws, roll_result>>
    /\ UNCHANGED <<limVars, supVars, mathVars, rndVars>>

\* process_explosion (main.py:384-406): the early return, or the set-up of
\* the loop over the initial_quantity elements.
ExplosionStart ==
    /\ pc = "explosion"
    /\ exp_i = 0
    /\ IF ExplosionSkipped(The(modifiers), results)
       THEN /\ CallNext("explosion")
            /\ bonus_idx' = 1
            /\ UNCHANGED <<exp_i, current_value_to_check, explosion_counts>>
       ELSE /\ exp_i' = 1
            /\ current_value_to_check' = results[1]
            /\ explosion_counts' = [i \in DOMAIN results |-> 0]
            /\ UNCHANGED <<pc, stages, bonus_idx>>
    /\ UNCHANGED <<tree_list, qty_token, range, modifiers, quantity, results, results_original,
                   same_object, error, rr_idx, attempt, rr_log, draws, roll_result>>
    /\ UNCHANGED <<limVars, supVars, mathVars, rndVars>>

\* Variant of explode_add: results[i] = new_roll_value instead of +=.
explode_replace(res, i, new_roll_value) == [res EXCEPT ![i] = new_roll_value]

\* Variant of explode_add: the extra roll appended as a value of its own.
explode_append(res, i, new_roll_value) == Append(res, new_roll_value)

\* self.results[i] += new_roll_value (main.py:405).
explode_add(res, i, new_roll_value) == [res EXCEPT ![i] = @ + new_roll_value]

\* Variant of ExplodesAgain: the while loop without its test of the count.
ExplodesAgainWhateverTheCount ==
    check_value_meets_explosion_conditions(The(modifiers), current_value_to_check, range)

\* Variant of ExplodesAgain: the count compared with <= instead of <.
ExplodesAgainPastLimit ==
    /\ check_value_meets_explosion_conditions(The(modifiers), current_value_to_check, range)
    /\ explosion_counts[exp_i] <= The(The(modifiers).explosion).limit

\* The test of the while loop: explode once more?
ExplodesAgain ==
    /\ check_value_meets_explosion_conditions(The(modifiers), current_value_to_check, range)
    /\ explosion_counts[exp_i] < The(The(modifiers).explosion).limit

\* One pass of the while loop that does not break (main.py:403-406).
ExplosionRoll ==
    /\ pc = "explosion"
    /\ exp_i \in DOMAIN results
    /\ ExplodesAgain
    /\ \E new_roll_value \in Faces(range) :
          /\ InPlace(explode_add(results, exp_i, new_roll_value))
          /\ current_value_to_check' = new_roll_value
    /\ explosion_counts' = [explosion_counts EXCEPT ![exp_i] = @ + 1]
    /\ draws' = draws + 1
    /\ UNCHANGED <<tree_list, qty_token, range, modifiers, quantity, same_object, pc, error,
                   stages, rr_idx, attempt, rr_log, exp_i, bonus_idx, roll_result>>
    /\ UNCHANGED <<limVars, supVars, mathVars, rndVars>>

\* The break of the while loop: on to the next element, or out of the
\* for loop and of process_explosion.
ExplosionBreak ==
    /\ pc = "explosion"
    /\ exp_i \in DOMAIN results
    /\ ~ExplodesAgain
    /\ IF exp_i < Len(results)
       THEN /\ exp_i' = exp_i + 1
            /\ current_value_to_check' = results[exp_i + 1]
            /\ UNCHANGED <<pc, stages, bonus_idx>>
       ELSE /\ CallNext("explosion")
            /\ bonus_idx' = 1
            /\ UNCHANGED <<exp_i, current_value_to_check>>
    /\ UNCHANGED <<tree_list, qty_token, range, modifiers, quantity, results, results_original,
                   same_object, error, rr_idx, attempt, rr_log, explosion_counts, draws,
                   roll_result>>
    /\ UNCHANGED <<limVars, supVars, mathVars, rndVars>>

\* process_targeted_bonuses (main.py:408-410): t_bonus.apply for the clause
\* in turn.
ProcessTargetedBonus ==
    /\ pc = "bonuses"
    /\ bonus_idx \in DOMAIN The(modifiers).targeted_bonuses
    /\ LET b == TargetedBonusApply(The(modifiers).targeted_bonuses[bonus_idx], results) IN
       IF b.raised
       THEN /\ Fail(b.kind)
            /\ UNCHANGED <<results, results_original, bonus_idx>>
       ELSE /\ InPlace(The(b.value))
            /\ bonus_idx' = bonus_idx + 1
            /\ UNCHANGED <<pc, error>>
    /\ UNCHANGED <<tree_list, qty_token, range, modifiers, quantity, same_object, stages,
                   rr_idx, attempt, rr_log, exp_i, current_value_to_check, explosion_counts,
                   draws, roll_result>>
    /\ UNCHANGED <<limVars, supVars, mathVars, rndVars>>

\* The loop of process_targeted_bonuses is used up and process() returns.
BonusesEnd ==
    /\ pc = "bonuses"
    /\ bonus_idx > Len(The(modifiers).targeted_bonuses)
    /\ CallNext("bonuses")
    /\ UNCHANGED <<tree_list, qty_token, range, modifiers, quantity, results, results_original,
                   same_object, error, rr_idx, attempt, rr_log, exp_i,
                   current_value_to_check, explosion_counts, bonus_idx, draws, roll_result>>
    /\ UNCHANGED <<limVars, supVars, mathVars, rndVars>>

\* dice() returns RollResult(roll.results, roll.results_original)
\* (main.py:579).
ReturnRollResult ==
    /\ pc = "return"
    /\ roll_result' = Some([results |-> results, results_original |-> results_original])
    /\ pc' = "done"
    /\ UNCHANGED <<tree_list, qty_token, range, modifiers, quantity, results, results_original,
                   same_object, error, stages, rr_idx, attempt, rr_log, exp_i,
                   current_value_to_check, explosion_counts, bonus_idx, draws>>
    /\ UNCHANGED <<limVars, supVars, mathVars, rndVars>>

NextRoll ==
    \/ Modifiers
    \/ Dice
    \/ ProcessDraw
    \/ ProcessKeeps
    \/ ProcessDrops
    \/ RerollRound
    \/ RerollClauseEnd
    \/ RerollsEnd
    \/ ExplosionStart
    \/ ExplosionRoll
    \/ ExplosionBreak
    \/ ProcessTargetedBonus
    \/ BonusesEnd
    \/ ReturnRollResult

Spec == InitRoll /\ [][NextRoll]_vars

\* ------------------------------------------------------------- the limit checkers alone
\* The magnitudes written: around every cap of every tier, and the two
\* quantities of the tier-enforcement examples.
LimitValues == {0, 1, 5, 6, 25, 30, 31, 50, 51, 1000, 1001, 2000, 10000, 10001, 20000}

InitLimits ==
    /\ lim_checker \in {"check_qty", "explode_limit_check", "reroll_limit_check"}
    /\ lim_tier \in Tiers
    /\ lim_value \in LimitValues
    /\ lim_out = None
    /\ RollIdle
    /\ SupervisorIdle
    /\ MathIdle
    /\ RandomIdle

\* DiceRollTransformer(dice_count_limit, gamemaster).check_qty(lim_value).
CheckQty ==
    /\ lim_checker = "check_qty"
    /\ lim_out = None
    /\ lim_out' = Some(check_qty(lim_value, TierConfig(lim_tier).dice_count_limit,
                                 TierConfig(lim_tier).gamemaster))
    /\ UNCHANGED <<lim_checker, lim_tier, lim_value>>
    /\ UNCHANGED <<rollVars, supVars, mathVars, rndVars>>

\* ExplodeLimitTransformer(limit, gamemaster).limit_check(lim_value).
ExplodeLimitCheck ==
    /\ lim_checker = "explode_limit_check"
    /\ lim_out = None
    /\ lim_out' = Some(explode_limit_check(lim_value, TierConfig(lim_tier).explode_limit,
                                           TierConfig(lim_tier).gamemaster))
    /\ UNCHANGED <<lim_checker, lim_tier, lim_value>>
    /\ UNCHANGED <<rollVars, supVars, mathVars, rndVars>>

\* RerollLimitTransformer(limit, gamemaster).limit_check(lim_value).
RerollLimitCheck ==
    /\ lim_checker = "reroll_limit_check"
    /\ lim_out = None
    /\ lim_out' = Some(reroll_limit_check(lim_value, TierConfig(lim_tier).reroll_limit,
                                          TierConfig(lim_tier).gamemaster))
    /\ UNCHANGED <<lim_checker, lim_tier, lim_value>>
    /\ UNCHANGED <<rollVars, supVars, mathVars, rndVars>>

NextLimits == CheckQty \/ ExplodeLimitCheck \/ RerollLimitCheck

SpecLimits == InitLimits /\ [][NextLimits]_vars

\* ------------------------------------------------------------- one supervised call
\* The statements of the entry points, in order: parser.parse on the
\* calling thread, then five transformers, each awaited in the executor
\* (main.py:600-605, 619-624, 638-643).
PipelineStages ==
    <<"parse", "RollplayerLibTransformer", "ExplodeLimitTransformer",
      "RerollLimitTransformer", "DiceRollTransformer", "MathTransformer">>
DiceStage == CHOOSE k \in DOMAIN PipelineStages : PipelineStages[k] = "DiceRollTransformer"
LastStage == Len(PipelineStages)

\* What can be wrong with the expression of the call.
Faults == {"none", "syntax", "explosion_limit_over_cap", "reroll_limit_over_cap",
           "quantity_over_cap", "zero_dice"}

SyntaxError == "SyntaxError"
TimeoutException == "TimeoutException"

\* The exception stage k raises for the fault, None when it raises none.
\* The transformers' exceptions reach the await wrapped in a VisitError
\* whose orig_exc they are; the kind below is that of orig_exc.
StageException(t, f, k) ==
    LET cfg == TierConfig(t)
        name == PipelineStages[k]
        raised(r) == IF r.raised THEN Some(r.kind) ELSE None
    IN CASE name = "parse" /\ f = "syntax" -> Some(SyntaxError)
         [] name = "ExplodeLimitTransformer" /\ f = "explosion_limit_over_cap" ->
               raised(explode_limit_check(cfg.explode_limit + 1, cfg.explode_limit, cfg.gamemaster))
         [] name = "RerollLimitTransformer" /\ f = "reroll_limit_over_cap" ->
               raised(reroll_limit_check(cfg.reroll_limit + 1, cfg.reroll_limit, cfg.gamemaster))
         [] name = "DiceRollTransformer" /\ f = "quantity_over_cap" ->
               raised(check_qty(cfg.dice_count_limit + 1, cfg.dice_count_limit, cfg.gamemaster))
         [] name = "DiceRollTransformer" /\ f = "zero_dice" ->
               raised(check_qty(0, cfg.dice_count_limit, cfg.gamemaster))
         [] OTHER -> None

\* The exception each entry point raises when bool(to_ctx_mgr) is false
\* (main.py:610, 629, 648).
TimeoutError(t) == IF t = "nongm" THEN UpsellException ELSE LimitException

\* Where the with block of the entry point ends: transformer_nongm closes
\* it right after the assertion (main.py:636-638), the other two after the
\* last transformer (main.py:598-607, 617-626).
BlockHoldsPipeline(t) == t # "nongm"

\* BaseTimeout.__bool__ (stopit.py:89-90).
ctx_bool(st) == st \in {EXECUTED, EXECUTING, CANCELED}

InitSupervisor ==
    /\ tier \in Tiers
    /\ fault \in Faults
    /\ co_pc = "enter"
    /\ stage = 0 /\ in_block = FALSE /\ exc = None
    /\ state = EXECUTED /\ timer_pc = "none" /\ timer_finished = FALSE
    /\ pending_async_exc = FALSE /\ worker = "idle" /\ work_left = 0
    /\ elapsed_at = 0 /\ late_work = 0 /\ victim = "" /\ outcome = ""
    /\ RollIdle
    /\ LimitsIdle
    /\ MathIdle
    /\ RandomIdle

\* An exception raised in the coroutine: inside the with block it goes to
\* __exit__, outside it leaves the entry point.
Propagate(kind) ==
    IF in_block
    THEN /\ exc' = Some(kind)
         /\ co_pc' = "exit"
         /\ UNCHANGED outcome
    ELSE /\ outcome' = kind
         /\ co_pc' = "done"
         /\ UNCHANGED exc

\* ThreadingTimeout(seconds) and BaseTimeout.__enter__ (stopit.py:99-102,
\* 211-214, 224-228): the timer thread is started.
Enter ==
    /\ co_pc = "enter"
    /\ state' = EXECUTING
    /\ timer_pc' = "waiting"
    /\ in_block' = TRUE
    /\ co_pc' = "assert"
    /\ UNCHANGED <<tier, fault, stage, exc, timer_finished, pending_async_exc, worker,
                   work_left, elapsed_at, late_work, victim, outcome>>
    /\ UNCHANGED <<rollVars, limVars, mathVars, rndVars>>

\* assert to_ctx_mgr.state == to_ctx_mgr.EXECUTING (main.py:599, 618, 637);
\* the block of transformer_nongm ends here.
AssertExecuting ==
    /\ co_pc = "assert"
    /\ ~pending_async_exc
    /\ state = EXECUTING
    /\ IF BlockHoldsPipeline(tier)
       THEN co_pc' = "stage" /\ stage' = 1
       ELSE co_pc' = "exit" /\ UNCHANGED stage
    /\ UNCHANGED <<tier, fault, in_block, exc, state, timer_pc, timer_finished,
                   pending_async_exc, worker, work_left, elapsed_at, late_work, victim,
                   outcome>>
    /\ UNCHANGED <<rollVars, limVars, mathVars, rndVars>>

\* tree = parser.parse(string), on the calling thread.
Parse ==
    /\ co_pc = "stage"
    /\ PipelineStages[stage] = "parse"
    /\ ~pending_async_exc
    /\ LET e == StageException(tier, fault, stage) IN
       IF e # None
       THEN Propagate(The(e)) /\ UNCHANGED stage
       ELSE co_pc' = "stage" /\ stage' = stage + 1 /\ UNCHANGED <<exc, outcome>>
    /\ UNCHANGED <<tier, fault, in_block, state, timer_pc, timer_finished,
                   pending_async_exc, worker, work_left, elapsed_at, late_work, victim>>
    /\ UNCHANGED <<rollVars, limVars, mathVars, rndVars>>

\* loop.run_in_executor(None, X().transform, tree): the stage is handed to
\* an executor thread and the coroutine is suspended at its await.
Submit ==
    /\ co_pc = "stage"
    /\ PipelineStages[stage] # "parse"
    /\ ~pending_async_exc
    /\ worker' = "running"
    /\ work_left' \in (IF stage = DiceStage THEN 0..MaxWork ELSE {0})
    /\ co_pc' = "await"
    /\ UNCHANGED <<tier, fault, stage, in_block, exc, state, timer_pc, timer_finished,
                   pending_async_exc, elapsed_at, late_work, victim, outcome>>
    /\ UNCHANGED <<rollVars, limVars, mathVars, rndVars>>

\* The executor thread makes one step of the stage (one random draw of
\* Roll.process). It is not the thread ThreadingTimeout.stop raises in.
WorkStep ==
    /\ worker = "running"
    /\ work_left > 0
    /\ work_left' = work_left - 1
    /\ late_work' = IF state = TIMED_OUT THEN late_work + 1 ELSE late_work
    /\ UNCHANGED <<tier, fault, co_pc, stage, in_block, exc, state, timer_pc,
                   timer_finished, pending_async_exc, worker, elapsed_at, victim, outcome>>
    /\ UNCHANGED <<rollVars, limVars, mathVars, rndVars>>

\* The executor thread ends the stage, with a result or with an exception.
WorkerDone ==
    /\ worker = "running"
    /\ work_left = 0
    /\ worker' = "finished"
    /\ UNCHANGED <<tier, fault, co_pc, stage, in_block, exc, state, timer_pc,
                   timer_finished, pending_async_exc, work_left, elapsed_at, late_work,
                   victim, outcome>>
    /\ UNCHANGED <<rollVars, limVars, mathVars, rndVars>>

\* The await returns in the coroutine: the stage's exception is raised
\* there, or the next statement is reached; after the last stage that is
\* the end of the with block, or, in transformer_nongm, the if.
Resume ==
    /\ co_pc = "await"
    /\ worker = "finished"
    /\ ~pending_async_exc
    /\ worker' = "idle"
    /\ LET e == StageException(tier, fault, stage) IN
       IF e # None
       THEN Propagate(The(e)) /\ UNCHANGED stage
       ELSE /\ IF stage < LastStage
               THEN co_pc' = "stage" /\ stage' = stage + 1
               ELSE co_pc' = (IF in_block THEN "exit" ELSE "if") /\ UNCHANGED stage
            /\ UNCHANGED <<exc, outcome>>
    /\ UNCHANGED <<tier, fault, in_block, state, timer_pc, timer_finished,
                   pending_async_exc, work_left, elapsed_at, late_work, victim>>
    /\ UNCHANGED <<rollVars, limVars, mathVars, rndVars>>

\* Timer.cancel() (suppress_interrupt, stopit.py:230-233): a timer thread
\* still in its wait ends without calling stop.
SuppressInterrupt ==
    /\ timer_finished' = TRUE
    /\ timer_pc' = IF timer_pc = "waiting" THEN "ended" ELSE timer_pc

\* BaseTimeout.__exit__ (stopit.py:104-116).
Exit ==
    /\ co_pc = "exit"
    /\ ~pending_async_exc
    /\ in_block' = FALSE
    /\ IF exc = Some(TimeoutException)
       THEN \* swallow_exc is True: the block ends as if nothing was raised
            /\ IF state # TIMED_OUT
               THEN state' = INTERRUPTED /\ SuppressInterrupt
               ELSE UNCHANGED <<state, timer_finished, timer_pc>>
            /\ exc' = None
            /\ co_pc' = "if"
            /\ UNCHANGED <<stage, outcome>>
       ELSE /\ state' = IF exc = None THEN EXECUTED ELSE state
            /\ SuppressInterrupt
            /\ IF exc # None
               THEN outcome' = The(exc) /\ co_pc' = "done" /\ UNCHANGED <<exc, stage>>
               ELSE /\ IF stage = 0
                       THEN co_pc' = "stage" /\ stage' = 1
                       ELSE co_pc' = "if" /\ UNCHANGED stage
                    /\ UNCHANGED <<exc, outcome>>
    /\ UNCHANGED <<tier, fault, pending_async_exc, worker, work_left, elapsed_at,
                   late_work, victim>>
    /\ UNCHANGED <<rollVars, limVars, mathVars, rndVars>>

\* if to_ctx_mgr: return tree / else: raise (main.py:607-610, 626-629,
\* 645-648).
IfCtxMgr ==
    /\ co_pc = "if"
    /\ ~pending_async_exc
    /\ outcome' = IF ctx_bool(state) THEN "result" ELSE TimeoutError(tier)
    /\ co_pc' = "done"
    /\ UNCHANGED <<tier, fault, stage, in_block, exc, state, timer_pc, timer_finished,
                   pending_async_exc, worker, work_left, elapsed_at, late_work, victim>>
    /\ UNCHANGED <<rollVars, limVars, mathVars, rndVars>>

\* The time budget of the tier runs out while the call is at a pipeline
\* stage: the wait of Timer.run times out, if the timer thread is still
\* in it.
BudgetElapses ==
    /\ elapsed_at = 0
    /\ co_pc \in {"stage", "await"}
    /\ elapsed_at' = stage
    /\ timer_pc' = IF timer_pc = "waiting" THEN "woken" ELSE timer_pc
    /\ UNCHANGED <<tier, fault, co_pc, stage, in_block, exc, state, timer_finished,
                   pending_async_exc, worker, work_left, late_work, victim, outcome>>
    /\ UNCHANGED <<rollVars, limVars, mathVars, rndVars>>

\* Timer.run after its wait: stop is called unless finished is set.
TimerCheckFinished ==
    /\ timer_pc = "woken"
    /\ timer_pc' = IF timer_finished THEN "ended" ELSE "stop"
    /\ UNCHANGED <<tier, fault, co_pc, stage, in_block, exc, state, timer_finished,
                   pending_async_exc, worker, work_left, elapsed_at, late_work, victim,
                   outcome>>
    /\ UNCHANGED <<rollVars, limVars, mathVars, rndVars>>

\* ThreadingTimeout.stop, first statement (stopit.py:220).
StopSetState ==
    /\ timer_pc = "stop"
    /\ state' = TIMED_OUT
    /\ timer_pc' = "async_raise"
    /\ UNCHANGED <<tier, fault, co_pc, stage, in_block, exc, timer_finished,
                   pending_async_exc, worker, work_left, elapsed_at, late_work, victim,
                   outcome>>
    /\ UNCHANGED <<rollVars, limVars, mathVars, rndVars>>

\* ThreadingTimeout.stop, second statement (stopit.py:221, 185-202): the
\* exception is set pending in the thread that built the context manager,
\* the thread of the event loop.
StopAsyncRaise ==
    /\ timer_pc = "async_raise"
    /\ pending_async_exc' = TRUE
    /\ timer_pc' = "ended"
    /\ UNCHANGED <<tier, fault, co_pc, stage, in_block, exc, state, timer_finished,
                   worker, work_left, elapsed_at, late_work, victim, outcome>>
    /\ UNCHANGED <<rollVars, limVars, mathVars, rndVars>>

\* The pending exception is raised at the next bytecode the event-loop
\* thread runs, while it runs the coroutine of the call: inside the with
\* block it goes to __exit__; after the block it leaves the entry point.
RaisedInCoroutine ==
    /\ pending_async_exc
    /\ co_pc \in {"assert", "stage", "exit", "if"}
    /\ pending_async_exc' = FALSE
    /\ victim' = "coroutine"
    /\ Propagate(TimeoutException)
    /\ UNCHANGED <<tier, fault, stage, in_block, state, timer_pc, timer_finished, worker,
                   work_left, elapsed_at, late_work>>
    /\ UNCHANGED <<rollVars, limVars, mathVars, rndVars>>

\* The pending exception is raised while the coroutine is suspended at an
\* await, or has returned: it is raised in whatever the event-loop thread
\* runs then. In the loop's own code it ends the loop, and the call is
\* never resumed; in another task it is that task's exception.
RaisedElsewhere ==
    /\ pending_async_exc
    /\ co_pc \in {"await", "done"}
    /\ pending_async_exc' = FALSE
    /\ \E v \in {"event_loop", "other_task"} :
          /\ victim' = v
          /\ IF v = "event_loop" /\ co_pc = "await"
             THEN co_pc' = "done" /\ outcome' = "never_resumed"
             ELSE UNCHANGED <<co_pc, outcome>>
    /\ UNCHANGED <<tier, fault, stage, in_block, exc, state, timer_pc, timer_finished,
                   worker, work_left, elapsed_at, late_work>>
    /\ UNCHANGED <<rollVars, limVars, mathVars, rndVars>>

NextSupervisor ==
    \/ Enter
    \/ AssertExecuting
    \/ Parse
    \/ Submit
    \/ WorkStep
    \/ WorkerDone
    \/ Resume
    \/ Exit
    \/ IfCtxMgr
    \/ BudgetElapses
    \/ TimerCheckFinished
    \/ StopSetState
    \/ StopAsyncRaise
    \/ RaisedInCoroutine
    \/ RaisedElsewhere

SpecSupervisor == InitSupervisor /\ [][NextSupervisor]_vars

\* ============================================================= the math evaluator
\* Python's TypeError, ZeroDivisionError and NotImplemented, as the
\* operators of RollResult and of the numbers meet them (main.py:233-277).
TypeError == "TypeError"
ZeroDivisionError == "ZeroDivisionError"
NotImplemented == [raised |-> FALSE, kind |-> "NotImplemented", value |-> None]

\* A number as to_number and the arithmetic make it (main.py:12-17): an int
\* n is n/1, and / gives the exact quotient.
Number(n, d) == [type |-> "number", num |-> n, den |-> d]
\* A RollResult (main.py:224-227).
RollResult(res, original) ==
    [type |-> "RollResult", results |-> res, results_original |-> original]

\* The arithmetic of two numbers under a rule; / by 0 raises.
number_op(rule, a, b) ==
    CASE rule = "add" -> Return(Number(a.num * b.den + b.num * a.den, a.den * b.den))
      [] rule = "sub" -> Return(Number(a.num * b.den - b.num * a.den, a.den * b.den))
      [] rule = "mul" -> Return(Number(a.num * b.num, a.den * b.den))
      [] rule = "div" ->
            IF b.num = 0 THEN Raise(ZeroDivisionError)
            ELSE IF b.num > 0 THEN Return(Number(a.num * b.den, a.den * b.num))
            ELSE Return(Number(-(a.num * b.den), -(a.den * b.num)))

\* RollResult.total_value (main.py:229-231).
total_value(self) == Number(Sum(self.results), 1)

\* RollResult.__add__, which is __radd__ as well (main.py:233-240).
RollResult_add(self, other) ==
    IF other.type = "RollResult" THEN number_op("add", total_value(self), total_value(other))
    ELSE IF other.type = "number" THEN number_op("add", total_value(self), other)
    ELSE NotImplemented

\* RollResult.__sub__ (main.py:242-247).
RollResult_sub(self, other) ==
    IF other.type = "RollResult" THEN number_op("sub", total_value(self), total_value(other))
    ELSE IF other.type = "number" THEN number_op("sub", total_value(self), other)
    ELSE NotImplemented

\* RollResult.__rsub__ (main.py:249-254).
RollResult_rsub(self, other) ==
    IF other.type = "RollResult" THEN number_op("sub", total_value(other), total_value(self))
    ELSE IF other.type = "number" THEN number_op("sub", other, total_value(self))
    ELSE NotImplemented

\* RollResult.__mul__, which is __rmul__ as well (main.py:256-263).
RollResult_mul(self, other) ==
    IF other.type = "RollResult" THEN number_op("mul", total_value(self), total_value(other))
    ELSE IF other.type = "number" THEN number_op("mul", total_value(self), other)
    ELSE NotImplemented

\* RollResult.__truediv__ as the class body leaves it: the second def of
\* that name (main.py:272-277) replaces the first (main.py:265-270), and
\* the class has no __rtruediv__.
RollResult_truediv(self, other) ==
    IF other.type = "RollResult" THEN number_op("div", total_value(other), total_value(self))
    ELSE IF other.type = "number" THEN number_op("div", other, total_value(self))
    ELSE NotImplemented

\* RollResult.__neg__ (main.py:279-282): the results negated in place and
\* self returned.
RollResult_neg(self) ==
    RollResult([i \in DOMAIN self.results |-> -self.results[i]], self.results_original)

\* The reflected method RollResult has for a rule, if it has one.
reflected(rule, self, other) ==
    CASE rule = "add" -> RollResult_add(self, other)
      [] rule = "sub" -> RollResult_rsub(self, other)
      [] rule = "mul" -> RollResult_mul(self, other)
      [] OTHER -> NotImplemented

\* The method of the left operand for a rule: of a number, which knows
\* numbers only, or of a RollResult.
forward(rule, a, b) ==
    IF a.type = "number"
    THEN IF b.type # "number" THEN NotImplemented
         ELSE number_op(rule, a, b)
    ELSE CASE rule = "add" -> RollResult_add(a, b)
           [] rule = "sub" -> RollResult_sub(a, b)
           [] rule = "mul" -> RollResult_mul(a, b)
           [] rule = "div" -> RollResult_truediv(a, b)

\* operator.add, sub, mul and truediv (main.py:585): the method of the left
\* operand, then the reflected one of a right operand of another type, then
\* TypeError.
binary_operator(rule, a, b) ==
    LET first == forward(rule, a, b)
        second == IF a.type # b.type /\ b.type = "RollResult"
                  THEN reflected(rule, b, a) ELSE NotImplemented
    IN IF first # NotImplemented THEN first
       ELSE IF second # NotImplemented THEN second
       ELSE Raise(TypeError)

\* operator.neg (main.py:585).
neg(a) ==
    IF a.type = "number" THEN Return(Number(-a.num, a.den)) ELSE Return(RollResult_neg(a))

\* The children a rule of the modelled trees may have: numbers, and dice
\* groups as dice() returns them, untouched, with values kept or removed,
\* and with a total of 0 after a targeted bonus.
MathOperands ==
    { Number(0, 1), Number(2, 1), Number(-3, 1),
      RollResult(<<2>>, <<2>>), RollResult(<<1, 3>>, <<1, 3>>),
      RollResult(<<3, 2>>, <<3, 1, 2>>), RollResult(<<0>>, <<1>>) }

InitMath ==
    /\ math_op \in {"add", "sub", "mul", "div"} \cup {"neg", "start"}
    /\ math_args \in IF math_op \in {"add", "sub", "mul", "div"}
                     THEN MathOperands \X MathOperands
                     ELSE {<<a>> : a \in MathOperands}
    /\ math_pc = IF math_op = "start" THEN "start" ELSE "rule"
    /\ math_value = IF math_op = "start" THEN Some(Return(math_args[1])) ELSE None
    /\ math_ret = None
    /\ RollIdle
    /\ LimitsIdle
    /\ SupervisorIdle
    /\ RandomIdle

\* The callbacks of the rules; an exception ends transform().
\* MathTransformer.add (main.py:585).
MathAdd ==
    /\ math_pc = "rule"
    /\ math_op = "add"
    /\ LET r == binary_operator("add", math_args[1], math_args[2]) IN
       /\ math_value' = Some(r)
       /\ math_pc' = IF r.raised THEN "error" ELSE "start"
    /\ UNCHANGED <<math_op, math_args, math_ret>>
    /\ UNCHANGED <<rollVars, limVars, supVars, rndVars>>

\* MathTransformer.sub (main.py:585).
MathSub ==
    /\ math_pc = "rule"
    /\ math_op = "sub"
    /\ LET r == binary_operator("sub", math_args[1], math_args[2]) IN
       /\ math_value' = Some(r)
       /\ math_pc' = IF r.raised THEN "error" ELSE "start"
    /\ UNCHANGED <<math_op, math_args, math_ret>>
    /\ UNCHANGED <<rollVars, limVars, supVars, rndVars>>

\* MathTransformer.mul (main.py:585).
MathMul ==
    /\ math_pc = "rule"
    /\ math_op = "mul"
    /\ LET r == binary_operator("mul", math_args[1], math_args[2]) IN
       /\ math_value' = Some(r)
       /\ math_pc' = IF r.raised THEN "error" ELSE "start"
    /\ UNCHANGED <<math_op, math_args, math_ret>>
    /\ UNCHANGED <<rollVars, limVars, supVars, rndVars>>

\* MathTransformer.div (main.py:585).
MathDiv ==
    /\ math_pc = "rule"
    /\ math_op = "div"
    /\ LET r == binary_operator("div", math_args[1], math_args[2]) IN
       /\ math_value' = Some(r)
       /\ math_pc' = IF r.raised THEN "error" ELSE "start"
    /\ UNCHANGED <<math_op, math_args, math_ret>>
    /\ UNCHANGED <<rollVars, limVars, supVars, rndVars>>

\* MathTransformer.neg (main.py:585).
MathNeg ==
    /\ math_pc = "rule"
    /\ math_op = "neg"
    /\ LET r == neg(math_args[1]) IN
       /\ math_value' = Some(r)
       /\ math_pc' = IF r.raised THEN "error" ELSE "start"
    /\ UNCHANGED <<math_op, math_args, math_ret>>
    /\ UNCHANGED <<rollVars, limVars, supVars, rndVars>>

\* MathTransformer.start (main.py:587-588).
MathStart ==
    /\ math_pc = "start"
    /\ math_ret' = The(math_value).value
    /\ math_pc' = "done"
    /\ UNCHANGED <<math_op, math_args, math_value>>
    /\ UNCHANGED <<rollVars, limVars, supVars, rndVars>>

NextMath == MathAdd \/ MathSub \/ MathMul \/ MathDiv \/ MathNeg \/ MathStart

SpecMath == InitMath /\ [][NextMath]_vars

\* ============================================================= the random source
\* The module-level generator of random, which main.py (line 3) and
\* utils/mapgame/core.py (line 6) both import: a deterministic generator
\* whose every call reads its one state and moves it on. The states 0 .. 7
\* and the step stand for those of the Mersenne Twister.
random_next(s) == (5 * s + 3) % 8
\* random.randint(low, high) (main.py:303, 382, 415): the value drawn in
\* state s.
randint(s, low, high) == low + (s % (high - low + 1))
\* random.random() (core.py:418, 419, 438, 451): the float drawn in state s,
\* in eighths.
random_random(s) == s
\* random.seed(a) (core.py:418, 450): the state is a function of a alone.
seed(a) == a % 8

InitRandom ==
    /\ rng_state \in 0 .. 7
    /\ req_left \in 1 .. MaxQty
    /\ req_draws = <<>>
    /\ own_state = rng_state /\ own_draws = <<>>
    /\ mg_pc = "idle" /\ mg_turn \in {0, 1} /\ expansion_seed = 0
    /\ others_done = 0
    /\ RollIdle
    /\ LimitsIdle
    /\ SupervisorIdle
    /\ MathIdle

\* One draw of the request, in its executor thread (main.py:303, 382, 415).
\* Beside it, the same draw from a generator that is the request's own from
\* its first draw on.
RequestDraw ==
    /\ req_left > 0
    /\ LET own == IF req_draws = <<>> THEN rng_state ELSE own_state IN
       /\ req_draws' = Append(req_draws, randint(rng_state, 1, MaxSide))
       /\ rng_state' = random_next(rng_state)
       /\ own_draws' = Append(own_draws, randint(own, 1, MaxSide))
       /\ own_state' = random_next(own)
    /\ req_left' = req_left - 1
    /\ UNCHANGED <<mg_pc, mg_turn, expansion_seed, others_done>>
    /\ UNCHANGED <<rollVars, limVars, supVars, mathVars>>

\* One draw of another request, in another executor thread
\* (main.py:604, 303, 382, 415).
OtherRequestDraw ==
    /\ others_done < MaxOther
    /\ rng_state' = random_next(rng_state)
    /\ others_done' = others_done + 1
    /\ UNCHANGED <<req_left, req_draws, own_state, own_draws, mg_pc, mg_turn, expansion_seed>>
    /\ UNCHANGED <<rollVars, limVars, supVars, mathVars>>

\* random.seed(random.random() + self.turn) (core.py:418).
MapgameSeedTurn ==
    /\ others_done < MaxOther
    /\ mg_pc = "idle"
    /\ rng_state' = seed(random_random(rng_state) + mg_turn)
    /\ mg_pc' = "expansion_seed"
    /\ others_done' = others_done + 1
    /\ UNCHANGED <<req_left, req_draws, own_state, own_draws, mg_turn, expansion_seed>>
    /\ UNCHANGED <<rollVars, limVars, supVars, mathVars>>

\* expansion_seed = random.random() (core.py:419).
MapgameExpansionSeed ==
    /\ others_done < MaxOther
    /\ mg_pc = "expansion_seed"
    /\ expansion_seed' = random_random(rng_state)
    /\ rng_state' = random_next(rng_state)
    /\ mg_pc' = "tiles"
    /\ others_done' = others_done + 1
    /\ UNCHANGED <<req_left, req_draws, own_state, own_draws, mg_turn>>
    /\ UNCHANGED <<rollVars, limVars, supVars, mathVars>>

\* if (random.random() * 100) < ... for a candidate of the expansion
\* (core.py:438).
MapgameExpansionDraw ==
    /\ others_done < MaxOther
    /\ mg_pc = "tiles"
    /\ rng_state' = random_next(rng_state)
    /\ others_done' = others_done + 1
    /\ UNCHANGED <<req_left, req_draws, own_state, own_draws, mg_pc, mg_turn, expansion_seed>>
    /\ UNCHANGED <<rollVars, limVars, supVars, mathVars>>

\* random.seed(expansion_seed * candidate.coordinates[0]
\* + candidate.coordinates[1]) (core.py:450), for a tile at risk at one of
\* three coordinates.
MapgameSeedCandidate ==
    /\ others_done < MaxOther
    /\ mg_pc = "tiles"
    /\ \E coordinates \in {<<0, 1>>, <<0, 2>>, <<1, 0>>} :
          rng_state' = seed(expansion_seed * coordinates[1] + coordinates[2])
    /\ mg_pc' = "strength"
    /\ others_done' = others_done + 1
    /\ UNCHANGED <<req_left, req_draws, own_state, own_draws, mg_turn, expansion_seed>>
    /\ UNCHANGED <<rollVars, limVars, supVars, mathVars>>

\* strength = random.random() (core.py:451).
MapgameStrength ==
    /\ others_done < MaxOther
    /\ mg_pc = "strength"
    /\ rng_state' = random_next(rng_state)
    /\ mg_pc' = "tiles"
    /\ others_done' = others_done + 1
    /\ UNCHANGED <<req_left, req_draws, own_state, own_draws, mg_turn, expansion_seed>>
    /\ UNCHANGED <<rollVars, limVars, supVars, mathVars>>

\* The loop over the border tiles is used up (core.py:420).
MapgameReturn ==
    /\ mg_pc = "tiles"
    /\ mg_pc' = "idle"
    /\ UNCHANGED <<rng_state, req_left, req_draws, own_state, own_draws, mg_turn,
                   expansion_seed, others_done>>
    /\ UNCHANGED <<rollVars, limVars, supVars, mathVars>>

NextRandom ==
    \/ RequestDraw
    \/ OtherRequestDraw
    \/ MapgameSeedTurn
    \/ MapgameExpansionSeed
    \/ MapgameExpansionDraw
    \/ MapgameSeedCandidate
    \/ MapgameStrength
    \/ MapgameReturn

SpecRandom == InitRandom /\ [][NextRandom]_vars

\* ============================================================= claims
\* ------------------------------------------------------------- helpers of the claims
IsPrefix(a, b) == Len(a) <= Len(b) /\ SubSeq(b, 1, Len(a)) = a
Occurrences(s, v) == Cardinality({i \in DOMAIN s : s[i] = v})
\* Every value occurs in a at most as often as in b and c together.
BagWithin(a, b, c) ==
    \A v \in Elems(a) : Occurrences(a, v) <= Occurrences(b, v) + Occurrences(c, v)
StageOrder == <<"keeps", "drops", "rerolls", "explosion", "bonuses">>
HasKeep == ~IsNone(The(modifiers).keep_higher) \/ ~IsNone(The(modifiers).keep_lower)
KeepHigherQty == IF IsNone(The(modifiers).keep_higher) THEN 0 ELSE The(The(modifiers).keep_higher).quantity
KeepLowerQty == IF IsNone(The(modifiers).keep_lower) THEN 0 ELSE The(The(modifiers).keep_lower).quantity
\* The drop stage has just returned: process_rerolls has made no step yet.
JustDropped == pc = "rerolls" /\ rr_idx = 1 /\ attempt = 0
\* The cap of the checker in turn at tier t.
CapOf(checker, t) ==
    CASE checker = "check_qty" -> TierConfig(t).dice_count_limit
      [] checker = "explode_limit_check" -> TierConfig(t).explode_limit
      [] checker = "reroll_limit_check" -> TierConfig(t).reroll_limit

\* C1: at every tier, once the time budget has elapsed while the pipeline
\* of a well-formed expression within the limits was still at one of its
\* stages, the call ends with the tier's timeout error and with nothing
\* else; in particular it returns no result.
C1_ElapsedBudgetEndsInTimeoutError ==
    (fault = "none" /\ elapsed_at # 0) => outcome \in {"", TimeoutError(tier)}

C1_Witness ==
    /\ tier = "nongm" /\ fault = "none"
    /\ elapsed_at # 0
    /\ outcome = "result"

\* C2: whatever the order the suffixes are written in, process() calls
\* keep, drop, reroll, explosion, targeted bonus in that order, one at a
\* time: the calls made so far are a prefix of that order, the stage that
\* runs is the last one called, and a group that returns has had each
\* stage called exactly once.
C2_StagesInFixedOrder ==
    /\ IsPrefix(stages, StageOrder)
    /\ pc \in Elems(StageOrder) => (stages # <<>> /\ stages[Len(stages)] = pc)
    /\ pc \in {"return", "done"} => stages = StageOrder

C2_Witness ==
    /\ pc = "done"
    /\ tree_list = <<BonusAll, ExplodeMax, RerollLow, DropEnds, KL1>>
    /\ results # results_original

\* C3: each limit checker returns a magnitude at most its cap unchanged
\* (the quantity checker only when it is not 0), and for a magnitude above
\* its cap raises the upsell error without the elevated flag and the
\* hard-limit error with it; 2000 dice at the restricted tier is an upsell
\* error and 20000 dice at the elevated tier a hard-limit error.
C3_LimitCheckers ==
    lim_out # None =>
      LET r == The(lim_out)
          cap == CapOf(lim_checker, lim_tier)
          elevated == TierConfig(lim_tier).gamemaster
      IN /\ (lim_value <= cap /\ (lim_checker = "check_qty" => lim_value # 0))
               => (~r.raised /\ r.value = Some(lim_value))
         /\ (lim_value > cap /\ ~elevated) => (r.raised /\ r.kind = UpsellException)
         /\ (lim_value > cap /\ elevated) => (r.raised /\ r.kind = LimitException)
         /\ (lim_checker = "check_qty" /\ lim_tier = "nongm" /\ lim_value = 2000)
               => (r.raised /\ r.kind = UpsellException)
         /\ (lim_checker = "check_qty" /\ lim_tier = "gm" /\ lim_value = 20000)
               => (r.raised /\ r.kind = LimitException)

C3_Witness ==
    /\ lim_out # None
    /\ lim_checker = "check_qty" /\ lim_tier = "nongm" /\ lim_value = 2000
    /\ The(lim_out).raised

\* C4: a magnitude above the cap of the highest tier yields the hard-limit
\* error at every tier, the restricted one included.
C4_AboveTopCapIsHardLimitAtEveryTier ==
    (lim_out # None /\ lim_value > CapOf(lim_checker, "gm"))
        => (The(lim_out).raised /\ The(lim_out).kind = LimitException)

C4_Witness ==
    /\ lim_out # None
    /\ lim_checker = "reroll_limit_check" /\ lim_tier = "nongm"
    /\ lim_value > CapOf(lim_checker, "gm")
    /\ The(lim_out).kind = UpsellException

\* C5: results_original gets its value at the initial draw, equal to the
\* draw, and no later step of the evaluation changes it; the RollResult
\* returned carries it.
C5_ResultsOriginalIsFrozen ==
    [][ /\ pc = "draw" => results_original' = results'
        /\ pc # "draw" => results_original' = results_original
        /\ pc = "return" => roll_result' = Some([results |-> results,
                                                 results_original |-> results_original]) ]_vars

C5_Witness ==
    /\ pc = "done"
    /\ Len(results) = Len(results_original)
    /\ \A i \in DOMAIN results : results[i] # results_original[i]

\* C6: results never has more elements than results_original; keep and
\* drop only shorten it, and reroll, explosion and targeted bonus leave its
\* length as it is.
C6_NeverLongerThanOriginal ==
    /\ [](Len(results) <= Len(results_original))
    /\ [][ /\ pc \in {"keeps", "drops"} => Len(results') <= Len(results)
           /\ pc \in {"rerolls", "explosion", "bonuses"} => Len(results') = Len(results) ]_vars

C6_Witness ==
    /\ pc = "done"
    /\ ~IsNone(The(modifiers).explosion)
    /\ Sum(explosion_counts) > 0
    /\ Len(results) < Len(results_original)

\* C7: a group of q >= 1 dice without modifiers returns exactly q values,
\* each within the range, and results equals results_original.
C7_PlainRoll ==
    (tree_list = <<>> /\ pc = "done") =>
        /\ quantity >= 1
        /\ Len(results) = quantity
        /\ \A i \in DOMAIN results : range.low <= results[i] /\ results[i] <= range.high
        /\ results = results_original
        /\ roll_result = Some([results |-> results, results_original |-> results_original])

C7_Witness ==
    /\ tree_list = <<>> /\ pc = "done"
    /\ quantity > 1 /\ range.low > 1
    /\ results[1] # results[quantity]

\* C8: when the keep stage has returned, results holds at most
\* min(n + m, q) values, each value at most as often as it occurs among
\* the n highest and the m lowest drawn values together, and exactly that
\* often when n + m <= q; the keep stage makes [10,10] of [10,10,3,7,1]
\* with kh2 (evaluated as a group starts).
C8_KeepBounds ==
    /\ (pc = "drops" /\ HasKeep) =>
          LET n == KeepHigherQty
              m == KeepLowerQty
              q == Len(results_original)
              highest == SubSeq(SortDesc(results_original), 1, MinOf(n, q))
              lowest == SubSeq(SortAsc(results_original), 1, MinOf(m, q))
          IN /\ Len(results) <= MinOf(n + m, q)
             /\ BagWithin(results, highest, lowest)
             /\ n + m <= q =>
                   \A v \in Elems(highest) \cup Elems(lowest) :
                       Occurrences(results, v) = Occurrences(highest, v) + Occurrences(lowest, v)
    /\ pc = "modifiers" =>
          process_keeps([EmptyModifiers EXCEPT !.keep_higher = Some(KH2)],
                        <<10, 10, 3, 7, 1>>).results = <<10, 10>>

C8_Witness ==
    /\ pc = "drops"
    /\ tree_list = <<KH2>>
    /\ Len(results_original) > Len(results)
    /\ Len(results) > 1 /\ results[1] = results[Len(results)]

\* C9, as claimed: in the RollResult of a group with drop clauses no value
\* of results matches a drop condition, whatever its other modifiers.
C9_NoDropMatchInFinalResult ==
    (pc = "done" /\ The(modifiers).drops # <<>>)
        => ToDrop(The(modifiers), results, range) = {}

\* C9, amended: when the drop stage returns, no value of results matches
\* a drop condition, and so it is in the RollResult of a group that has no
\* reroll, explosion or targeted bonus (a value one of these produces
\* later may match and stays); results_original still holds every drawn
\* value, the dropped ones included: without a keep, results is then
\* results_original less the matching positions.
C9_NoDropMatchAfterDropStage ==
    /\ JustDropped => ToDrop(The(modifiers), results, range) = {}
    /\ (pc = "done" /\ The(modifiers).rerolls = <<>> /\ IsNone(The(modifiers).explosion)
            /\ The(modifiers).targeted_bonuses = <<>>)
          => ToDrop(The(modifiers), results, range) = {}
    /\ pc \in Elems(StageOrder) \cup {"return", "done"} => Len(results_original) = quantity
    /\ (JustDropped /\ ~HasKeep) =>
          LET matching == ToDrop(The(modifiers), results_original, range)
              survives(v) == \E i \in DOMAIN results_original \ matching : results_original[i] = v
          IN /\ Len(results) = Len(results_original) - Cardinality(matching)
             /\ \A i \in DOMAIN results : survives(results[i])
             /\ \A i \in matching : Occurrences(results, results_original[i]) = 0

C9_Witness ==
    /\ JustDropped
    /\ The(modifiers).drops # <<>>
    /\ results # <<>>
    /\ Len(results) < Len(results_original)

\* C10: a reroll clause of limit k never makes more than k rounds; when it
\* finishes, either no value of results matches any of its conditions or
\* it has made exactly k rounds; and a round in which nothing matches
\* redraws nothing and ends the clause.
C10_RerollRounds ==
    /\ [](\A i \in DOMAIN rr_log :
            LET clause == The(modifiers).rerolls[i] IN
            /\ rr_log[i].rounds <= clause.limit
            /\ \/ MatchAny(clause.conditions, rr_log[i].left, range) = {}
               \/ rr_log[i].rounds = clause.limit)
    /\ [](InRerollClause => attempt <= The(modifiers).rerolls[rr_idx].limit)
    /\ [][ (InRerollClause /\ ToReroll = {})
              => (results' = results /\ draws' = draws /\ rr_idx' = rr_idx + 1) ]_vars

C10_Witness ==
    /\ rr_log # <<>>
    /\ rr_log[1].rounds = The(modifiers).rerolls[1].limit
    /\ rr_log[1].rounds > 1
    /\ MatchAny(The(modifiers).rerolls[1].conditions, rr_log[1].left, range) # {}


\* ------------------------------------------------------------- helpers of the claims (explosion, bonuses)
ExplosionLimit == The(The(modifiers).explosion).limit
ExplosionOnly == Len(tree_list) = 1 /\ tree_list[1].kind = "Explosion"
\* process_explosion is in its loop, at element exp_i.
InExplosionLoop == pc = "explosion" /\ exp_i \in DOMAIN results

\* C11: no element gets more extra draws than the explosion's limit; each
\* step of the explosion stage either leaves results as it is or adds one
\* drawn face to the element in turn, counts it and changes no other
\* element, so that an element ends at its value before the stage plus the
\* sum of its extra draws; in a group with the explosion as its only
\* modifier the growth of each element lies between count * low and
\* count * high; and a d<high>! group whose draw is high ends with
\* results[1] >= high.
C11_ExplosionAddsWithinLimit ==
    /\ [](\A i \in DOMAIN explosion_counts : explosion_counts[i] <= ExplosionLimit)
    /\ [][ InExplosionLoop =>
             \/ /\ results' = results
                /\ explosion_counts' = explosion_counts
                /\ draws' = draws
             \/ \E v \in range.low .. range.high :
                   /\ results' = [results EXCEPT ![exp_i] = @ + v]
                   /\ explosion_counts' = [explosion_counts EXCEPT ![exp_i] = @ + 1]
                   /\ current_value_to_check' = v
                   /\ draws' = draws + 1 ]_vars
    /\ []((ExplosionOnly /\ pc \in {"bonuses", "return", "done"}) =>
             \A i \in DOMAIN explosion_counts :
                 /\ results[i] - results_original[i] >= explosion_counts[i] * range.low
                 /\ results[i] - results_original[i] <= explosion_counts[i] * range.high)
    /\ []((tree_list = <<ExplodeDefault>> /\ pc = "done" /\ results_original[1] = range.high)
             => results[1] >= range.high)

C11_Witness ==
    /\ pc = "done"
    /\ tree_list = <<ExplodeMax>>
    /\ results_original[1] = range.high
    /\ explosion_counts[1] = ExplosionLimit
    /\ results[1] > results_original[1] + range.high

\* C12: the element in turn explodes again exactly when its count is below
\* the limit and the value just drawn matches at least one of the
\* explosion's conditions.
C12_ExplodesOnAnyCondition ==
    InExplosionLoop =>
        (ExplodesAgain <=>
            /\ explosion_counts[exp_i] < ExplosionLimit
            /\ \E k \in DOMAIN The(The(modifiers).explosion).conditions :
                  ValueMatches(The(The(modifiers).explosion).conditions[k],
                               current_value_to_check, range))

\* A drawn 1 under !{<2,>2}:1 has gone through the stage without an extra draw.
C12_Witness ==
    /\ pc = "done"
    /\ tree_list = <<ExplodeEnds>>
    /\ results_original[1] = 1
    /\ explosion_counts[1] = 0
    /\ results[1] = 1


\* The operations of a clause applied, in the order listed, to one value.
RECURSIVE OpsOn(_, _)
OpsOn(operations, v) ==
    IF operations = <<>> THEN v ELSE OpsOn(Tail(operations), OperationApply(Head(operations), v))
\* The clause names position 0 or a position past the end of res.
BadTarget(bonus, res) ==
    /\ ~IsNone(bonus.targets)
    /\ \E k \in DOMAIN The(bonus.targets) :
          The(bonus.targets)[k] = 0 \/ The(bonus.targets)[k] > Len(res)
LastStageCalled == IF stages = <<>> THEN "" ELSE stages[Len(stages)]

\* C13: the step that applies a targeted bonus clause changes, with the
\* wildcard, every position results has at that time by the clause's
\* operations applied once in their order, and with an index list exactly
\* the listed 1-based positions, leaving the others as they are; i*:+20 on
\* 3 dice adds 20 to each and 60 to the total, i1,3:+20 leaves position 2.
C13_TargetedBonusPositions ==
    /\ [][ (pc = "bonuses" /\ bonus_idx' = bonus_idx + 1) =>
             LET bonus == The(modifiers).targeted_bonuses[bonus_idx]
                 hit(i) == IsNone(bonus.targets) \/ i \in Elems(The(bonus.targets))
             IN /\ DOMAIN results' = DOMAIN results
                /\ \A i \in DOMAIN results :
                      results'[i] = IF hit(i) THEN OpsOn(bonus.operations, results[i])
                                    ELSE results[i] ]_vars
    /\ [](pc = "modifiers" =>
            \A res \in [1..3 -> range.low .. range.high] :
               LET plus == <<TargetedOperation(ADD, 20)>>
                   all == TargetedBonusApply(TargetedBonus(None, plus), res)
                   some == TargetedBonusApply(TargetedBonus(Some(<<1, 3>>), plus), res)
               IN /\ ~all.raised /\ ~some.raised
                  /\ The(all.value) = <<res[1] + 20, res[2] + 20, res[3] + 20>>
                  /\ Sum(The(all.value)) = Sum(res) + 60
                  /\ The(some.value) = <<res[1] + 20, res[2], res[3] + 20>>)

C13_Witness ==
    /\ pc = "done"
    /\ tree_list = <<BonusAll, BonusFirstThird>>
    /\ Len(results) > 2
    /\ results[2] = (results_original[2] + 2) * 2
    /\ results[1] = (results_original[1] + 2) * 2 + 2

\* C14: a targeted bonus clause that names position 0, or a position past
\* the end of results as the earlier stages left it, is never passed: the
\* evaluation ends at it with the hard-limit error, and no result is
\* returned for a group that has such a clause.
C14_BadTargetIsHardLimit ==
    /\ pc \in {"bonuses", "return", "done"} =>
          \A k \in DOMAIN The(modifiers).targeted_bonuses :
              k < bonus_idx => ~BadTarget(The(modifiers).targeted_bonuses[k], results)
    /\ (pc = "error" /\ LastStageCalled = "bonuses") =>
          /\ error = Some(LimitException)
          /\ roll_result = None
          /\ BadTarget(The(modifiers).targeted_bonuses[bonus_idx], results)
    /\ pc \in {"return", "done"} => bonus_idx = Len(The(modifiers).targeted_bonuses) + 1

C14_Witness ==
    /\ pc = "error" /\ LastStageCalled = "bonuses"
    /\ Len(results_original) > 2
    /\ Len(results) = 2
    /\ The(modifiers).targeted_bonuses = <<BonusFirstThird>>

\* C15: a written quantity of 0 makes check_qty raise the hard-limit error
\* with the cap and flag of every tier, and the evaluation of the group
\* ends with that error before any die is drawn.
C15_ZeroDiceIsHardLimit ==
    /\ pc = "modifiers" =>
          \A t \in Tiers :
              check_qty(0, TierConfig(t).dice_count_limit, TierConfig(t).gamemaster)
                  = Raise(LimitException)
    /\ qty_token = Some(0) =>
          /\ pc \in {"modifiers", "dice", "error"}
          /\ draws = 0 /\ results = <<>> /\ roll_result = None
          /\ pc = "error" => error = Some(LimitException)

C15_Witness ==
    /\ qty_token = Some(0)
    /\ pc = "error"
    /\ tree_list = <<ExplodeDefault>>
    /\ modifiers # None

\* C16: without keep-higher and keep-lower the keep stage leaves results
\* as drawn; with a keep modifier whose quantities are both 0, an absent
\* one counting as 0, the keep stage is never passed and the evaluation
\* ends in it with the hard-limit error.
C16_KeepNoOpOrNothing ==
    /\ (pc = "drops" /\ ~HasKeep) => (results = results_original /\ same_object = FALSE)
    /\ (pc \in Elems(StageOrder) \cup {"return", "done", "error"} /\ modifiers # None
            /\ HasKeep /\ KeepHigherQty = 0 /\ KeepLowerQty = 0) =>
          /\ pc \in {"keeps", "error"}
          /\ pc = "error" => (error = Some(LimitException) /\ roll_result = None)
    /\ (pc = "error" /\ LastStageCalled = "keeps") =>
          (HasKeep /\ KeepHigherQty = 0 /\ KeepLowerQty = 0)

C16_Witness ==
    /\ pc = "error" /\ LastStageCalled = "keeps"
    /\ tree_list = <<KH0>>
    /\ Len(results) > 1


\* ------------------------------------------------------------- helpers of the claims (supervised call)
\* A pipeline stage of the call is running, on the calling thread or in the executor.
StageRunning == co_pc \in {"stage", "await"}
\* ThreadingTimeout.stop has been called for the call.
TimerFired == timer_pc = "async_raise" \/ pending_async_exc \/ victim # ""
TypedOutcomes == {"result", SyntaxError, UpsellException, LimitException}

\* C17: at every tier, as long as the budget has not elapsed, a pipeline
\* stage runs only inside the with block, with the context in state
\* EXECUTING and its timer started and not cancelled.
C17_StagesRunInsideTimeBox ==
    (StageRunning /\ elapsed_at = 0) =>
        /\ in_block
        /\ state = EXECUTING
        /\ timer_pc = "waiting"
        /\ ~timer_finished

C17_Witness ==
    /\ tier = "nongm"
    /\ co_pc = "await" /\ worker = "running"
    /\ PipelineStages[stage] = "DiceRollTransformer"
    /\ ~in_block /\ state = EXECUTED /\ timer_pc = "ended"

\* C18: once the timer of a call has fired, the executor thread makes no
\* further step of the stage it runs (no further draw) and the call
\* returns no result.
C18_NothingAfterTimerFired ==
    /\ late_work = 0
    /\ TimerFired => outcome # "result"

C18_Witness ==
    /\ tier = "default"
    /\ late_work > 1
    /\ victim = "other_task"
    /\ outcome = "result"

\* C19: the exception of a call's timeout is raised in the coroutine of
\* that call and nowhere else on the thread of the event loop.
C19_TimeoutStaysInItsCall ==
    victim \in {"", "coroutine"}

C19_Witness ==
    /\ victim = "other_task"
    /\ co_pc = "await"
    /\ state = TIMED_OUT

\* C20: a call that returns to its caller ends with a result or with one
\* of the typed errors (syntax, upsell, hard limit, the tier's timeout
\* error being one of the last two); stopit's TimeoutException never
\* leaves the entry point.
C20_OnlyTypedOutcomes ==
    (co_pc = "done" /\ outcome # "never_resumed") => outcome \in TypedOutcomes

C20_Witness ==
    /\ co_pc = "done"
    /\ outcome = TimeoutException
    /\ stage = LastStage
    /\ fault = "none"


\* ------------------------------------------------------------- helpers of the claims (drop, reroll, keep)
\* The positions of res at which some condition of some clause holds.
MatchingPositions(clauses, res) ==
    {i \in DOMAIN res :
        \E d \in DOMAIN clauses : \E c \in DOMAIN clauses[d].conditions :
            ValueMatches(clauses[d].conditions[c], res[i], range)}
\* res less the positions of I, the rest in their order.
RECURSIVE Without(_, _, _)
Without(res, I, k) ==
    IF k > Len(res) THEN <<>>
    ELSE (IF k \in I THEN <<>> ELSE <<res[k]>>) \o Without(res, I, k + 1)
\* a can be had from b by striking out elements of b.
RECURSIVE IsSubsequence(_, _)
IsSubsequence(a, b) ==
    IF a = <<>> THEN TRUE
    ELSE IF b = <<>> THEN FALSE
    ELSE IF Head(a) = Head(b) THEN IsSubsequence(Tail(a), Tail(b))
    ELSE IsSubsequence(a, Tail(b))

\* C25: the step of the drop stage makes of results exactly the results
\* before it less every position at which at least one condition of at
\* least one drop clause holds on those results, the other elements once
\* each and in their order.
C25_DropRemovesMatchingPositions ==
    [][ pc = "drops" =>
          results' = Without(results, MatchingPositions(The(modifiers).drops, results), 1) ]_vars

C25_Witness ==
    /\ JustDropped
    /\ The(modifiers).drops = <<DropEnds>>
    /\ HasKeep
    /\ results = <<2>>
    /\ Len(results_original) > 2

\* C26: a reroll round gives a fresh value of the range to exactly the
\* positions that match a condition of the clause on the results before
\* the round, draws once for each of them, and leaves every other position
\* and the number of results as they are.
C26_RerollRoundFrame ==
    [][ (InRerollClause /\ attempt' = attempt + 1) =>
          LET matching == MatchingPositions(<<The(modifiers).rerolls[rr_idx]>>, results) IN
          /\ matching # {}
          /\ Len(results') = Len(results)
          /\ \A i \in DOMAIN results :
                IF i \in matching
                THEN range.low <= results'[i] /\ results'[i] <= range.high
                ELSE results'[i] = results[i]
          /\ draws' = draws + Cardinality(matching) ]_vars

C26_Witness ==
    /\ pc = "rerolls" /\ attempt = 1
    /\ tree_list = <<RerollLow>>
    /\ Len(results) > 2
    /\ results[1] = results_original[1] /\ results_original[1] > 1
    /\ results_original[2] = 1 /\ results[2] > 1
    /\ results_original[3] = 1 /\ results[3] = 1

\* C27: in a dN! group (range 1..N, the default condition, no other
\* modifier) no value ends at exactly N.
C27_MaximumAlwaysGrows ==
    (pc = "done" /\ ExplosionOnly /\ range.low = 1
        /\ The(The(modifiers).explosion).conditions = <<Condition(MAXIMUM, -1)>>
        /\ ExplosionLimit >= 1)
      => \A i \in DOMAIN results : results[i] # range.high

C27_Witness ==
    /\ pc = "done"
    /\ tree_list = <<ExplodeDefault>>
    /\ range.low = 1
    /\ results_original = <<range.high>>
    /\ results[1] = range.high + 1

\* C30: when the keep stage has returned for keep-higher n and keep-lower
\* m with n + m > 0, results holds exactly min(n + m, q) of the q drawn
\* values, in the relative order in which they were drawn.
C30_KeepCountAndOrder ==
    (pc = "drops" /\ HasKeep) =>
        /\ KeepHigherQty + KeepLowerQty > 0
        /\ Len(results) = MinOf(KeepHigherQty + KeepLowerQty, Len(results_original))
        /\ IsSubsequence(results, results_original)

C30_Witness ==
    /\ pc = "drops"
    /\ tree_list = <<KL1, KH2>>
    /\ results_original = <<3, 1, 2>>
    /\ results = results_original


\* ------------------------------------------------------------- helpers of the claims (termination)
\* The sum of limit + 1 over the reroll clauses from the k-th on.
RECURSIVE RoundsLeftFrom(_, _)
RoundsLeftFrom(rerolls, k) ==
    IF k > Len(rerolls) THEN 0
    ELSE rerolls[k].limit + 1 + RoundsLeftFrom(rerolls, k + 1)
\* The sum of the limits of the reroll clauses.
RECURSIVE SumOfRerollLimits(_)
SumOfRerollLimits(rerolls) ==
    IF rerolls = <<>> THEN 0 ELSE Head(rerolls).limit + SumOfRerollLimits(Tail(rerolls))
\* The explosion limit of the group, 0 without an explosion clause.
ExplosionLimitOrZero ==
    IF IsNone(The(modifiers).explosion) THEN 0 ELSE The(The(modifiers).explosion).limit
\* q + q * (sum of the reroll limits) + q * (explosion limit).
DrawBudget ==
    quantity + quantity * SumOfRerollLimits(The(modifiers).rerolls)
             + quantity * ExplosionLimitOrZero
\* How many calls of the evaluation are still ahead.
StagesAhead ==
    CASE pc = "modifiers" -> 9
      [] pc = "dice"      -> 8
      [] pc = "draw"      -> 7
      [] pc = "keeps"     -> 6
      [] pc = "drops"     -> 5
      [] pc = "rerolls"   -> 4
      [] pc = "explosion" -> 3
      [] pc = "bonuses"   -> 2
      [] pc = "return"    -> 1
      [] OTHER            -> 0
\* How many passes of the loops of the running stage are still possible.
PassesAhead ==
    CASE pc = "rerolls" ->
            RoundsLeftFrom(The(modifiers).rerolls, rr_idx) + 1 - attempt
      [] pc = "explosion" ->
            IF exp_i = 0 THEN (Len(results) + 1) * (ExplosionLimitOrZero + 1) + 1
            ELSE (Len(results) + 1 - exp_i) * (ExplosionLimitOrZero + 1)
                     - explosion_counts[exp_i]
      [] pc = "bonuses" ->
            Len(The(modifiers).targeted_bonuses) + 1 - bonus_idx
      [] OTHER -> 0

\* C29: the evaluation of one dice group draws at most
\* q + q * (sum of its reroll limits) + q * (its explosion limit) values,
\* and it ends whatever is drawn: every step takes the pair (calls ahead,
\* passes ahead), two naturals, strictly down in the lexicographic order.
C29_TerminatesWithinDrawBudget ==
    [][ /\ \/ StagesAhead' < StagesAhead
           \/ StagesAhead' = StagesAhead /\ PassesAhead' < PassesAhead
        /\ StagesAhead' >= 0 /\ PassesAhead' >= 0
        /\ IF IsNone(modifiers') THEN draws' = 0 ELSE draws' <= DrawBudget' ]_vars

C29_Witness ==
    /\ pc = "done"
    /\ tree_list = <<RerollHigh, ExplodeMax>>
    /\ quantity > 1
    /\ draws = DrawBudget


\* C23: at the default tier the caps are those of the tier table: a
\* quantity up to 1000, an explosion limit up to 25 and a reroll limit up
\* to 5 are accepted and returned as they are; in particular the explicit
\* explosion limit 25.
C23_DefaultTierCapsOfTheTable ==
    (lim_out # None /\ lim_tier = "default" /\ lim_value >= 1) =>
      LET r == The(lim_out)
          accepted == ~r.raised /\ r.value = Some(lim_value)
      IN /\ (lim_checker = "check_qty" /\ lim_value <= 1000) => accepted
         /\ (lim_checker = "explode_limit_check" /\ lim_value <= 25) => accepted
         /\ (lim_checker = "reroll_limit_check" /\ lim_value <= 5) => accepted

C23_Witness ==
    /\ lim_out # None
    /\ lim_tier = "default"
    /\ lim_checker = "explode_limit_check" /\ lim_value = 25
    /\ The(lim_out).raised /\ The(lim_out).kind = LimitException

\* C28: a state that has become TIMED_OUT stays TIMED_OUT, and the entry
\* point whose timer has fired takes the branch of the timeout error, never
\* the one that returns the result.
C28_TimedOutIsFinal ==
    [][ /\ state = TIMED_OUT => state' = TIMED_OUT
        /\ (TimerFired /\ co_pc = "if" /\ co_pc' = "done")
              => outcome' = TimeoutError(tier) ]_vars

C28_Witness ==
    /\ tier = "gm"
    /\ TimerFired
    /\ state = EXECUTED
    /\ co_pc = "done" /\ outcome = "result"


\* ------------------------------------------------------------- helpers of the claims (math)
\* Two numbers are the same quantity.
SameNumber(a, b) == a.num * b.den = b.num * a.den
\* What an operand stands for in arithmetic: a number itself, a dice group
\* its total.
TotalOf(a) == IF a.type = "number" THEN a ELSE total_value(a)
SomeGroup == \E i \in DOMAIN math_args : math_args[i].type = "RollResult"
\* The rule applied to the totals of its two children.
OnTotals ==
    LET l == TotalOf(math_args[1])
        r == TotalOf(math_args[2])
    IN The(number_op(math_op, l, r).value)

\* C21: a binary rule with at least one dice group among its two children
\* gives the rule applied to the totals, left operand first: T + n, n + T,
\* T - n, n - T, T * n, T / n and n / T, and the same with two totals
\* (a division by a total or number of 0 set aside).
C21_ArithmeticOnTotals ==
    (math_value # None /\ math_op \in {"add", "sub", "mul", "div"} /\ SomeGroup
        /\ ~(math_op = "div" /\ TotalOf(math_args[2]).num = 0))
      => LET r == The(math_value) IN
         /\ ~r.raised
         /\ The(r.value).type = "number"
         /\ SameNumber(The(r.value), OnTotals)

C21_Witness ==
    /\ math_pc = "done"
    /\ math_op = "div"
    /\ math_args = <<RollResult(<<1, 3>>, <<1, 3>>), Number(2, 1)>>
    /\ SameNumber(The(math_ret), Number(1, 2))

\* C22: a rule of arithmetic (binary, or the negation) that has a dice
\* group among its children gives a number, which carries no
\* results_original; a dice group alone comes out of start() as the
\* RollResult it is, with results and results_original.
C22_OnlyTheTotalSurvives ==
    /\ (math_value # None /\ math_op \in {"add", "sub", "mul", "div"} \cup {"neg"} /\ SomeGroup
           /\ ~The(math_value).raised)
         => The(The(math_value).value).type = "number"
    /\ (math_pc = "done" /\ math_op = "start" /\ SomeGroup)
         => math_ret = Some(math_args[1])

C22_Witness ==
    /\ math_pc = "done"
    /\ math_op = "neg"
    /\ math_args = <<RollResult(<<3, 2>>, <<3, 1, 2>>)>>
    /\ math_ret = Some(RollResult(<<-3, -2>>, <<3, 1, 2>>))


\* C24: the values a request draws are those of a random source of its
\* own: nothing that another request or the map game does between its
\* draws changes or fixes them.
C24_DrawsOfItsOwnSource ==
    req_draws = own_draws

C24_Witness ==
    /\ Len(req_draws) = 2
    /\ mg_pc = "strength"
    /\ others_done = 3
    /\ req_draws[2] # own_draws[2]

====
